---- MODULE Spec2Model ----
(***************************************************************************)
(* Model of the CKS AI web application's server side: the chat route's     *)
(* search fallback chain and answer synthesis (five versions of the route  *)
(* exist in the repository), and the flat-file store behind GET /files.    *)
(*                                                                         *)
(* A JavaScript string is modelled as a sequence of atoms.  User supplied  *)
(* strings (messages, filenames) are sequences of single characters;       *)
(* template literals of the source are kept as one atom each.              *)
(***************************************************************************)
EXTENDS Integers, Sequences, FiniteSets, TLC

(***************************************************************************)
(* Bounds                                                                  *)
(***************************************************************************)
\* longest list an external provider answers with
MaxOrganic == 2

(***************************************************************************)
(* JavaScript strings and values                                           *)
(***************************************************************************)
\* the value `undefined` / `null` where a string is expected
Undefined == <<"\\undefined">>

Whitespace == {" ", "\t", "\n"}

Upper == <<"A","B","C","D","E","F","G","H","I","J","K","L","M",
           "N","O","P","Q","R","S","T","U","V","W","X","Y","Z">>
Lower == <<"a","b","c","d","e","f","g","h","i","j","k","l","m",
           "n","o","p","q","r","s","t","u","v","w","x","y","z">>

lowerChar(c) ==
  IF \E i \in 1..26 : Upper[i] = c
  THEN Lower[CHOOSE i \in 1..26 : Upper[i] = c]
  ELSE c

\* String.prototype.toLowerCase
toLowerCase(s) == [i \in 1..Len(s) |-> lowerChar(s[i])]

\* String.prototype.startsWith
startsWith(s, p) == Len(s) >= Len(p) /\ SubSeq(s, 1, Len(p)) = p

\* String.prototype.endsWith
endsWith(s, p) == Len(s) >= Len(p) /\ SubSeq(s, Len(s) - Len(p) + 1, Len(s)) = p

\* String.prototype.includes
includes(s, p) == \E i \in 0..(Len(s) - Len(p)) : SubSeq(s, i + 1, i + Len(p)) = p

RECURSIVE trimStart(_)
trimStart(s) ==
  IF s # <<>> /\ Head(s) \in Whitespace THEN trimStart(Tail(s)) ELSE s

RECURSIVE trimEnd(_)
trimEnd(s) ==
  IF s # <<>> /\ s[Len(s)] \in Whitespace THEN trimEnd(SubSeq(s, 1, Len(s) - 1)) ELSE s

\* String.prototype.trim
trim(s) == trimEnd(trimStart(s))

\* String.prototype.slice(0, n)
sliceTo(s, n) == SubSeq(s, 1, IF Len(s) < n THEN Len(s) ELSE n)

\* a || d on strings: the empty string and undefined are falsy
orElse(a, d) == IF a = Undefined \/ a = <<>> THEN d ELSE a

\* Array.prototype.join over a sequence of strings
RECURSIVE join(_, _)
join(parts, sep) ==
  IF parts = <<>> THEN <<>>
  ELSE IF Len(parts) = 1 THEN parts[1]
  ELSE parts[1] \o sep \o join(Tail(parts), sep)

Digits == <<"0","1","2","3","4","5","6","7","8","9">>

\* Number.prototype.toString of a non-negative integer
RECURSIVE numToString(_)
numToString(n) ==
  IF n < 10 THEN <<Digits[n + 1]>>
  ELSE numToString(n \div 10) \o <<Digits[(n % 10) + 1]>>

\* A JSON value found under a key of a request body.
\*   t = "undefined" (key absent), "null", "string", "number", "boolean", "object"
JsUndefined == [t |-> "undefined", s |-> <<>>, truthy |-> FALSE]
JsNull      == [t |-> "null",      s |-> <<>>, truthy |-> FALSE]
JsString(s) == [t |-> "string",    s |-> s,    truthy |-> s # <<>>]
JsNumber(n) == [t |-> "number",    s |-> numToString(n), truthy |-> n # 0]
JsBool(b)   == [t |-> "boolean",   s |-> IF b THEN <<"true">> ELSE <<"false">>, truthy |-> b]
JsObject    == [t |-> "object",    s |-> <<"[object Object]">>, truthy |-> TRUE]

(***************************************************************************)
(* POST /chat: requests                                                    *)
(***************************************************************************)
\* The five versions of the chat route:
\*   "hf"     unnamed/part_000 lines 1-192   (Serper + Hugging Face)
\*   "zaiJs"  unnamed/part_000 lines 194-437 (Serper + ZAI behind a flag)
\*   "zaiSdk" unnamed/part_000 lines 439-653 (Serper + ZAI, always on)
\*   "zaiTs"  unnamed/part_000 lines 654-858 (Serper + ZAI behind a flag)
\*   "serper" src/app/api/chat/route.ts      (Serper only, local synthesis)
ChatRoutes == {"hf", "zaiJs", "zaiSdk", "zaiTs", "serper"}

\* process.env as the routes read it
Envs == [SERPER_API_KEY : BOOLEAN, ZAI_ENABLED : BOOLEAN, HUGGINGFACE_API_KEY : BOOLEAN]

WhatIsPhotosynthesis ==
  <<"W","h","a","t"," ","i","s"," ","p","h","o","t","o","s","y","n","t","h","e","s","i","s">>

Messages == { WhatIsPhotosynthesis, <<"h","i">>, <<" "," "," ">>, <<" ","a"," ">>, <<>> }

\* the values the `message` key of a JSON body can hold
MessageValues ==
  {JsUndefined, JsNull, JsNumber(0), JsNumber(5), JsBool(FALSE), JsBool(TRUE), JsObject}
  \cup {JsString(m) : m \in Messages}

\* request bodies: text that is not JSON, the JSON value null, or an object
Bodies ==
  {[kind |-> "invalid", message |-> JsUndefined], [kind |-> "null", message |-> JsUndefined]}
  \cup {[kind |-> "object", message |-> v] : v \in MessageValues}

ErrorMessage == <<"[err.message]">>

\* lines 121-126, 365-373, 802-807 of part_000: body parsed with a catch,
\* message must be a non-blank string
validateStrict(body) ==
  LET message == IF body.kind = "object" /\ body.message.t # "undefined"
                 THEN body.message ELSE JsNull
  IN IF ~message.truthy \/ message.t # "string" \/ trim(message.s) = <<>>
     THEN [ctl |-> "reject", message |-> message]
     ELSE [ctl |-> "accept", message |-> message]

\* lines 589-596 of part_000: destructuring of the parsed body, truthiness only
validateTruthy(body) ==
  IF body.kind # "object" THEN [ctl |-> "raise", message |-> JsUndefined]
  ELSE IF ~body.message.truthy THEN [ctl |-> "reject", message |-> body.message]
  ELSE [ctl |-> "accept", message |-> body.message]

\* lines 275-280 of chat/route.ts: body?.message?.trim()
validateTrimmed(body) ==
  IF body.kind = "invalid" THEN [ctl |-> "raise", message |-> JsUndefined]
  ELSE IF body.kind = "null" \/ body.message.t \in {"undefined", "null"}
       THEN [ctl |-> "reject", message |-> JsUndefined]
  ELSE IF body.message.t # "string" THEN [ctl |-> "raise", message |-> JsUndefined]
  ELSE LET message == JsString(trim(body.message.s))
       IN IF ~message.truthy THEN [ctl |-> "reject", message |-> message]
          ELSE [ctl |-> "accept", message |-> message]

validate(v, body) ==
  CASE v \in {"hf", "zaiJs", "zaiTs"} -> validateStrict(body)
    [] v = "zaiSdk" -> validateTruthy(body)
    [] v = "serper" -> validateTrimmed(body)

(***************************************************************************)
(* Search producers                                                        *)
(***************************************************************************)
ExampleUrl == <<"https://example.com">>

\* items as the providers return them; any field may be absent
RawItems ==
  { [title |-> <<"T","a">>, link |-> <<"u","a">>, snippet |-> <<"s","a">>],
    [title |-> Undefined,   link |-> Undefined,   snippet |-> Undefined] }

RawLists == UNION {[1..n -> RawItems] : n \in 0..MaxOrganic}

\* what a call of an external provider can do: throw (network error, status
\* not ok, module missing, null answer) or answer a list
ExternalOutcomes ==
  {[threw |-> TRUE, raw |-> <<>>]} \cup {[threw |-> FALSE, raw |-> l] : l \in RawLists}

resultTitle(i) == <<"R","e","s","u","l","t"," ">> \o numToString(i)

\* the mapping of Serper's data.organic
serperMap(v, raw) ==
  [i \in 1..Len(raw) |->
     IF v = "zaiSdk"
     THEN [title |-> raw[i].title, url |-> raw[i].link,
           snippet |-> raw[i].snippet, position |-> i]
     ELSE [title |-> orElse(raw[i].title, resultTitle(i)),
           url |-> orElse(raw[i].link, ExampleUrl),
           snippet |-> orElse(raw[i].snippet, <<>>), position |-> i]]

\* the mapping of ZAI's web_search answer (name, url, snippet)
zaiMap(v, raw) ==
  [i \in 1..Len(raw) |->
     IF v = "zaiSdk"
     THEN [title |-> raw[i].title, url |-> raw[i].link,
           snippet |-> raw[i].snippet, position |-> i]
     ELSE [title |-> orElse(raw[i].title, resultTitle(i)),
           url |-> orElse(raw[i].link, ExampleUrl),
           snippet |-> orElse(raw[i].snippet, <<>>), position |-> i]]

\* the local fallback producer
localResults(v, query) ==
  IF v = "zaiSdk"
  THEN << [title |-> <<"Information about ">> \o query, url |-> ExampleUrl,
           snippet |-> <<"No search results available at the moment. Please try again later.">>,
           position |-> 1] >>
  ELSE << [title |-> <<"About \"">> \o query \o <<"\"">>, url |-> ExampleUrl,
           snippet |-> <<"External search is not configured or temporarily unavailable. This is a local fallback summary.">>,
           position |-> 1] >>

\* registered, were the local placeholder producer appended in every version
registeredWithLocal(v, e) ==
  (IF e.SERPER_API_KEY \/ v = "zaiSdk" THEN <<"serper">> ELSE <<>>)
  \o (IF (v \in {"zaiJs", "zaiTs"} /\ e.ZAI_ENABLED) \/ v = "zaiSdk" THEN <<"zai">> ELSE <<>>)
  \o <<"local">>

\* the producers searchWithFallback registers, in order
registered(v, e) ==
  CASE v = "hf" ->
         (IF e.SERPER_API_KEY THEN <<"serper">> ELSE <<>>) \o <<"local">>
    [] v \in {"zaiJs", "zaiTs"} ->
         (IF e.SERPER_API_KEY THEN <<"serper">> ELSE <<>>)
         \o (IF e.ZAI_ENABLED THEN <<"zai">> ELSE <<>>) \o <<"local">>
    [] v = "zaiSdk" -> <<"serper", "zai", "local">>
    [] v = "serper" -> IF e.SERPER_API_KEY THEN <<"serper">> ELSE <<>>

\* what a call of producer p can do
outcomes(p) ==
  IF p = "local" THEN {[threw |-> FALSE, raw |-> <<>>]} ELSE ExternalOutcomes

\* the value a producer's call that did not throw resolves to
produced(v, p, query, raw) ==
  CASE p = "serper" -> serperMap(v, raw)
    [] p = "zai"    -> zaiMap(v, raw)
    [] p = "local"  -> localResults(v, query)

\* accepted, were the length test dropped
acceptedAnyList(v, results) == TRUE

\* the test on a producer's value: chat/route.ts returns what Serper gave,
\* the loops of part_000 take a non-empty list only
accepted(v, results) ==
  IF v = "serper" THEN TRUE ELSE Len(results) > 0

\* loopStep, were the call not wrapped in try/catch
loopStepNoCatch(v, out, results) ==
  IF out.threw THEN "raise"
  ELSE IF accepted(v, results) THEN "return"
  ELSE "continue"

\* loopStep, were the loop to go on after a producer's list has been taken
loopStepNoReturn(v, out, results) ==
  "continue"

\* one turn of the loop `for (const method of methods) try {...} catch {continue}`
loopStep(v, out, results) ==
  IF out.threw THEN "continue"
  ELSE IF accepted(v, results) THEN "return"
  ELSE "continue"

(***************************************************************************)
(* Formatters of the part_000 routes                                       *)
(***************************************************************************)
\* a value interpolated into a template literal
str(x) == IF x = Undefined THEN <<"undefined">> ELSE x

SourcesHeader == <<"\n\n---\n\n**(link) Sources:**\n">>

SnippetShown == 120

sourceLine(v, r, i) ==
  IF v = "zaiSdk"
  THEN <<"[">> \o numToString(i) \o <<"] [">> \o str(r.title) \o <<"](">> \o str(r.url)
       \o <<") - ">> \o (IF r.snippet = Undefined THEN <<"undefined">> ELSE sliceTo(r.snippet, 100))
       \o <<"...">>
  ELSE <<"[">> \o numToString(i) \o <<"] [">> \o r.title \o <<"](">> \o r.url \o <<") - ">>
       \o sliceTo(orElse(r.snippet, <<>>), SnippetShown)
       \o (IF Len(orElse(r.snippet, <<>>)) > SnippetShown THEN <<"...">> ELSE <<>>)

formatSources(v, results) ==
  IF Len(results) = 0 THEN <<>>
  ELSE SourcesHeader
       \o join([i \in 1..Len(results) |-> sourceLine(v, results[i], i)], <<"\n">>)

QuickAnswerTitle == <<"(bulb) Quick answer about \"">>
WhatItIs == <<"* **What it is:** A short explanation related to \"">>

\* the deterministic local answer of the routes "hf", "zaiJs" and "zaiTs"
localAIGenerate(v, userMessage, searchResults) ==
  QuickAnswerTitle \o userMessage \o <<"\"\n\n">>
  \o <<"* **Direct answer:** I couldn't access an external AI service right now, but here's a concise, helpful summary based on the input and local knowledge.\n\n">>
  \o WhatItIs \o userMessage \o <<"\".">>
  \o <<"\n* **How it matters:** Practical implications or reasons this is useful.">>
  \o <<"\n* **Next steps:** What the user can try next (e.g., search more, clarify, or provide more context).">>
  \o <<"\n\n**Details & Context:**\n- This fallback reply is generated locally when external AI/search services are not configured.\n- Provide more detail or a specific angle (e.g., \"history\", \"examples\", \"code\") and I'll expand.\n">>
  \o formatSources(v, searchResults)
  \o (IF v = "hf"
      THEN <<"\n\n**Suggested follow-up questions:**\n1. Could you give more specific details or context about \"">>
      ELSE <<"\n\n**Suggested follow-up questions:**\n1. Could you give me more specific details or context about \"">>)
  \o userMessage
  \o <<"\"?\n2. Do you want examples, code, or a step-by-step guide?\n3. Would you like me to attempt a web search (if you add a SERPER_API_KEY)?">>

(***************************************************************************)
(* Synthesis of chat/route.ts                                              *)
(***************************************************************************)
isDigit(c) == c \in {"0","1","2","3","4","5","6","7","8","9"}

isLetter(c) == \E i \in 1..26 : Upper[i] = c \/ Lower[i] = c

\* \w of a regular expression
isWordChar(c) == isDigit(c) \/ isLetter(c) \/ c = "_"

wordAt(s, i) == i >= 1 /\ i <= Len(s) /\ isWordChar(s[i])

\* \b between the characters at i and i + 1
boundary(s, i) == wordAt(s, i) # wordAt(s, i + 1)

RECURSIVE digitsRun(_, _)
digitsRun(s, p) == IF p <= Len(s) /\ isDigit(s[p]) THEN 1 + digitsRun(s, p + 1) ELSE 0

RECURSIVE spaceRun(_, _)
spaceRun(s, p) == IF p <= Len(s) /\ s[p] \in Whitespace THEN 1 + spaceRun(s, p + 1) ELSE 0

\* the units of /\b\d+\s*(km|mi|kg|lb|°C|°F|ft|m|cm|mm)\b/gi, lower-cased;
\* the atom "[deg]" stands for the degree sign
Units == { <<"k","m">>, <<"m","i">>, <<"k","g">>, <<"l","b">>, <<"[deg]","c">>,
           <<"[deg]","f">>, <<"f","t">>, <<"m">>, <<"c","m">>, <<"m","m">> }

unitAt(s, p, u) ==
  /\ p + Len(u) - 1 <= Len(s)
  /\ toLowerCase(SubSeq(s, p, p + Len(u) - 1)) = u
  /\ boundary(s, p + Len(u) - 1)

\* length of the match of a key-fact pattern that starts at p, 0 if none
matchLen(kind, s, p) ==
  LET d == digitsRun(s, p)
      w == spaceRun(s, p + d)
  IN CASE kind = "year" ->
            IF /\ p + 3 <= Len(s)
               /\ boundary(s, p - 1)
               /\ SubSeq(s, p, p + 1) \in {<<"1","9">>, <<"2","0">>}
               /\ isDigit(s[p + 2]) /\ isDigit(s[p + 3])
               /\ boundary(s, p + 3)
            THEN 4 ELSE 0
       [] kind = "percentage" ->
            IF /\ d > 0
               /\ boundary(s, p - 1)
               /\ p + d <= Len(s) /\ s[p + d] = "%"
               /\ boundary(s, p + d)
            THEN d + 1 ELSE 0
       [] kind = "measurement" ->
            IF d > 0 /\ boundary(s, p - 1) /\ \E u \in Units : unitAt(s, p + d + w, u)
            THEN d + w + Len(CHOOSE u \in Units : unitAt(s, p + d + w, u))
            ELSE 0

\* String.prototype.match with a global pattern: the matches from left to right
RECURSIVE matchAll(_, _, _)
matchAll(kind, s, p) ==
  IF p > Len(s) THEN <<>>
  ELSE LET n == matchLen(kind, s, p)
       IN IF n > 0 THEN <<SubSeq(s, p, p + n - 1)>> \o matchAll(kind, s, p + n)
          ELSE matchAll(kind, s, p + 1)

factsOf(snippet) ==
  LET years        == matchAll("year", snippet, 1)
      percentages  == matchAll("percentage", snippet, 1)
      measurements == matchAll("measurement", snippet, 1)
  IN (IF Len(years) > 0
      THEN << <<"Date reference: ">> \o join(years, <<",", " ">>) >> ELSE <<>>)
     \o (IF Len(percentages) > 0
         THEN << <<"Statistical data: ">> \o join(percentages, <<",", " ">>) >> ELSE <<>>)
     \o (IF Len(measurements) > 0
         THEN << <<"Measurements: ">> \o join(measurements, <<",", " ">>) >> ELSE <<>>)

RECURSIVE extractKeyFacts(_)
extractKeyFacts(results) ==
  IF results = <<>> THEN <<>>
  ELSE factsOf(Head(results).snippet) \o extractKeyFacts(Tail(results))

themeKeywords ==
  <<
    [theme |-> <<"Technology">>, keywords |->
      { <<"t","e","c","h","n","o","l","o","g","y">>,
        <<"s","o","f","t","w","a","r","e">>,
        <<"a","p","p">>,
        <<"d","i","g","i","t","a","l">>,
        <<"c","o","m","p","u","t","e","r">>,
        <<"o","n","l","i","n","e">>,
        <<"w","e","b","s","i","t","e">> }],
    [theme |-> <<"Science">>, keywords |->
      { <<"r","e","s","e","a","r","c","h">>,
        <<"s","t","u","d","y">>,
        <<"s","c","i","e","n","t","i","s","t">>,
        <<"e","x","p","e","r","i","m","e","n","t">>,
        <<"d","i","s","c","o","v","e","r","y">>,
        <<"a","n","a","l","y","s","i","s">> }],
    [theme |-> <<"Business">>, keywords |->
      { <<"c","o","m","p","a","n","y">>,
        <<"b","u","s","i","n","e","s","s">>,
        <<"m","a","r","k","e","t">>,
        <<"e","c","o","n","o","m","y">>,
        <<"f","i","n","a","n","c","i","a","l">>,
        <<"r","e","v","e","n","u","e">>,
        <<"p","r","o","f","i","t">> }],
    [theme |-> <<"Health">>, keywords |->
      { <<"h","e","a","l","t","h">>,
        <<"m","e","d","i","c","a","l">>,
        <<"t","r","e","a","t","m","e","n","t">>,
        <<"d","i","s","e","a","s","e">>,
        <<"s","y","m","p","t","o","m","s">>,
        <<"d","o","c","t","o","r">>,
        <<"h","o","s","p","i","t","a","l">> }],
    [theme |-> <<"Entertainment">>, keywords |->
      { <<"m","o","v","i","e">>,
        <<"m","u","s","i","c">>,
        <<"g","a","m","e">>,
        <<"s","h","o","w">>,
        <<"e","n","t","e","r","t","a","i","n","m","e","n","t">>,
        <<"c","e","l","e","b","r","i","t","y">> }],
    [theme |-> <<"Sports">>, keywords |->
      { <<"s","p","o","r","t">>,
        <<"g","a","m","e">>,
        <<"t","e","a","m">>,
        <<"p","l","a","y","e","r">>,
        <<"m","a","t","c","h">>,
        <<"c","h","a","m","p","i","o","n","s","h","i","p">>,
        <<"s","c","o","r","e">> }],
    [theme |-> <<"Education">>, keywords |->
      { <<"e","d","u","c","a","t","i","o","n">>,
        <<"s","c","h","o","o","l">>,
        <<"u","n","i","v","e","r","s","i","t","y">>,
        <<"s","t","u","d","e","n","t">>,
        <<"l","e","a","r","n","i","n","g">>,
        <<"c","o","u","r","s","e">> }],
    [theme |-> <<"Politics">>, keywords |->
      { <<"g","o","v","e","r","n","m","e","n","t">>,
        <<"p","o","l","i","c","y">>,
        <<"p","o","l","i","t","i","c","a","l">>,
        <<"e","l","e","c","t","i","o","n">>,
        <<"v","o","t","e">>,
        <<"l","a","w">> }],
    [theme |-> <<"History">>, keywords |->
      { <<"h","i","s","t","o","r","y">>,
        <<"h","i","s","t","o","r","i","c","a","l">>,
        <<"a","n","c","i","e","n","t">>,
        <<"p","a","s","t">>,
        <<"c","e","n","t","u","r","y">>,
        <<"d","e","c","a","d","e">> }]
  >>

\* the themes of themeKeywords, in its order, that some result mentions
identifyThemes(results) ==
  LET hit(k) == \E i \in 1..Len(results) :
                  \E w \in themeKeywords[k].keywords :
                    includes(toLowerCase(results[i].title \o <<" ">> \o results[i].snippet), w)
      pick[k \in 0..Len(themeKeywords)] ==
        IF k = 0 THEN <<>>
        ELSE IF hit(k) THEN Append(pick[k - 1], themeKeywords[k].theme) ELSE pick[k - 1]
  IN pick[Len(themeKeywords)]

\* determineQueryType, were the test for comparisons the first one
determineQueryTypeVsFirst(query) ==
  LET lowerQuery == toLowerCase(query)
  IN IF includes(lowerQuery, <<"c","o","m","p","a","r","e">>)
        \/ includes(lowerQuery, <<"v","s">>)
        \/ includes(lowerQuery, <<"v","e","r","s","u","s">>) THEN "comparison"
     ELSE IF startsWith(lowerQuery, <<"w","h","a","t"," ","i","s">>)
        \/ startsWith(lowerQuery, <<"d","e","f","i","n","e">>) THEN "definition"
     ELSE IF startsWith(lowerQuery, <<"h","o","w"," ","t","o">>)
        \/ includes(lowerQuery, <<"h","o","w"," ","d","o">>) THEN "howto"
     ELSE IF startsWith(lowerQuery, <<"w","h","y">>)
        \/ includes(lowerQuery, <<"r","e","a","s","o","n">>) THEN "explanation"
     ELSE "general"

\* determineQueryType, were drawbacks tested before benefits
determineQueryTypeDrawbacksFirst(query) ==
  LET lowerQuery == toLowerCase(query)
  IN IF startsWith(lowerQuery, <<"w","h","a","t"," ","i","s">>)
        \/ startsWith(lowerQuery, <<"d","e","f","i","n","e">>) THEN "definition"
     ELSE IF startsWith(lowerQuery, <<"h","o","w"," ","t","o">>)
        \/ includes(lowerQuery, <<"h","o","w"," ","d","o">>) THEN "howto"
     ELSE IF startsWith(lowerQuery, <<"w","h","y">>)
        \/ includes(lowerQuery, <<"r","e","a","s","o","n">>) THEN "explanation"
     ELSE IF includes(lowerQuery, <<"c","o","m","p","a","r","e">>)
        \/ includes(lowerQuery, <<"v","s">>)
        \/ includes(lowerQuery, <<"v","e","r","s","u","s">>) THEN "comparison"
     ELSE IF includes(lowerQuery, <<"r","e","v","i","e","w">>)
        \/ includes(lowerQuery, <<"r","a","t","i","n","g">>)
        \/ includes(lowerQuery, <<"o","p","i","n","i","o","n">>) THEN "review"
     ELSE IF includes(lowerQuery, <<"h","i","s","t","o","r","y">>)
        \/ includes(lowerQuery, <<"o","r","i","g","i","n">>) THEN "historical"
     ELSE IF includes(lowerQuery, <<"n","e","w","s">>)
        \/ includes(lowerQuery, <<"r","e","c","e","n","t">>)
        \/ includes(lowerQuery, <<"l","a","t","e","s","t">>) THEN "news"
     ELSE IF includes(lowerQuery, <<"d","i","s","a","d","v","a","n","t","a","g","e">>)
        \/ includes(lowerQuery, <<"c","o","n">>)
        \/ includes(lowerQuery, <<"r","i","s","k">>) THEN "drawbacks"
     ELSE IF includes(lowerQuery, <<"b","e","n","e","f","i","t">>)
        \/ includes(lowerQuery, <<"a","d","v","a","n","t","a","g","e">>)
        \/ includes(lowerQuery, <<"p","r","o">>) THEN "benefits"
     ELSE "general"

determineQueryType(query) ==
  LET lowerQuery == toLowerCase(query)
  IN IF startsWith(lowerQuery, <<"w","h","a","t"," ","i","s">>)
        \/ startsWith(lowerQuery, <<"d","e","f","i","n","e">>) THEN "definition"
     ELSE IF startsWith(lowerQuery, <<"h","o","w"," ","t","o">>)
        \/ includes(lowerQuery, <<"h","o","w"," ","d","o">>) THEN "howto"
     ELSE IF startsWith(lowerQuery, <<"w","h","y">>)
        \/ includes(lowerQuery, <<"r","e","a","s","o","n">>) THEN "explanation"
     ELSE IF includes(lowerQuery, <<"c","o","m","p","a","r","e">>)
        \/ includes(lowerQuery, <<"v","s">>)
        \/ includes(lowerQuery, <<"v","e","r","s","u","s">>) THEN "comparison"
     ELSE IF includes(lowerQuery, <<"r","e","v","i","e","w">>)
        \/ includes(lowerQuery, <<"r","a","t","i","n","g">>)
        \/ includes(lowerQuery, <<"o","p","i","n","i","o","n">>) THEN "review"
     ELSE IF includes(lowerQuery, <<"h","i","s","t","o","r","y">>)
        \/ includes(lowerQuery, <<"o","r","i","g","i","n">>) THEN "historical"
     ELSE IF includes(lowerQuery, <<"n","e","w","s">>)
        \/ includes(lowerQuery, <<"r","e","c","e","n","t">>)
        \/ includes(lowerQuery, <<"l","a","t","e","s","t">>) THEN "news"
     ELSE IF includes(lowerQuery, <<"b","e","n","e","f","i","t">>)
        \/ includes(lowerQuery, <<"a","d","v","a","n","t","a","g","e">>)
        \/ includes(lowerQuery, <<"p","r","o">>) THEN "benefits"
     ELSE IF includes(lowerQuery, <<"d","i","s","a","d","v","a","n","t","a","g","e">>)
        \/ includes(lowerQuery, <<"c","o","n">>)
        \/ includes(lowerQuery, <<"r","i","s","k">>) THEN "drawbacks"
     ELSE "general"

\* String.prototype.replace(p, "") with a string pattern: the first occurrence
removeFirst(s, p) ==
  IF includes(s, p)
  THEN LET i == CHOOSE i \in 0..(Len(s) - Len(p)) :
                  /\ SubSeq(s, i + 1, i + Len(p)) = p
                  /\ \A j \in 0..(i - 1) : SubSeq(s, j + 1, j + Len(p)) # p
       IN SubSeq(s, 1, i) \o SubSeq(s, i + Len(p) + 1, Len(s))
  ELSE s

\* String.prototype.replace(/p/gi, ""): every occurrence, whatever the case
RECURSIVE removeAll(_, _)
removeAll(s, p) ==
  IF Len(s) < Len(p) THEN s
  ELSE IF toLowerCase(SubSeq(s, 1, Len(p))) = p
       THEN removeAll(SubSeq(s, Len(p) + 1, Len(s)), p)
       ELSE <<Head(s)>> \o removeAll(Tail(s), p)

DefinitionHeading == <<"(books) **Understanding ">>

generateIntroduction(query, queryType, themes) ==
  LET themeText == IF Len(themes) > 0
                   THEN <<" This topic relates to ">> \o join(themes, <<",", " ">>) \o <<" fields.">>
                   ELSE <<>>
  IN CASE queryType = "definition" ->
            DefinitionHeading \o query
            \o <<"**\n\nHere's what you need to know about this topic.">> \o themeText
       [] queryType = "howto" ->
            <<"(tools) **How to ">> \o trim(removeFirst(query, <<"h","o","w"," ","t","o">>))
            \o <<"**\n\nHere's a comprehensive approach based on current information.">> \o themeText
       [] queryType = "explanation" ->
            <<"(lens) **Why ">> \o trim(removeFirst(query, <<"w","h","y">>))
            \o <<"**\n\nHere are the key factors and explanations.">> \o themeText
       [] queryType = "comparison" ->
            <<"(scales) **Comparing ">> \o query
            \o <<"**\n\nHere's how these options stack up against each other.">> \o themeText
       [] queryType = "review" ->
            <<"(star) **Review of ">> \o query
            \o <<"**\n\nHere's what the information reveals about this topic.">> \o themeText
       [] queryType = "historical" ->
            <<"(scroll) **Historical context of ">> \o query
            \o <<"**\n\nHere's the background and development over time.">> \o themeText
       [] queryType = "news" ->
            <<"(newspaper) **Latest on ">> \o query
            \o <<"**\n\nHere's the most current information available.">> \o themeText
       [] queryType = "benefits" ->
            <<"(check) **Benefits of ">> \o query
            \o <<"**\n\nHere are the advantages and positive aspects.">> \o themeText
       [] queryType = "drawbacks" ->
            <<"(warning) **Potential drawbacks of ">> \o query
            \o <<"**\n\nHere are the limitations and considerations.">> \o themeText
       [] OTHER ->
            <<"(bulb) **About ">> \o query
            \o <<"**\n\nHere's what I found based on current information.">> \o themeText

MainPointsShown == 3

cleanSnippet(snippet) ==
  removeAll(removeAll(removeAll(snippet,
    <<"c","l","i","c","k"," ","h","e","r","e"," ","f","o","r"," ","m","o","r","e"," ","i","n","f","o","r","m","a","t","i","o","n">>),
    <<"r","e","a","d"," ","m","o","r","e">>),
    <<"l","e","a","r","n"," ","m","o","r","e">>)

generateMainContent(query, queryType, keyFacts, results) ==
  LET top == SubSeq(results, 1, IF Len(results) < MainPointsShown THEN Len(results) ELSE MainPointsShown)
      mainPoints == [i \in 1..Len(top) |-> <<"* ">> \o cleanSnippet(top[i].snippet)]
  IN (IF Len(keyFacts) > 0
      THEN <<"**Key Information:**\n">>
           \o join([i \in 1..Len(keyFacts) |-> <<"* ">> \o keyFacts[i]], <<"\n">>) \o <<"\n\n">>
      ELSE <<>>)
     \o (IF Len(mainPoints) > 0
         THEN <<"**Main Points:**\n">> \o join(mainPoints, <<"\n">>) ELSE <<>>)
     \o (CASE queryType = "howto" -> <<"\n\n**Steps to Consider:**\n* Research the specific requirements for your situation\n* Gather necessary resources or tools\n* Follow established best practices\n* Consider potential challenges and how to address them">>
           [] queryType = "explanation" -> <<"\n\n**Factors to Consider:**\n* Context and circumstances\n* Historical background\n* Current trends and developments\n* Expert opinions and research">>
           [] queryType = "comparison" -> <<"\n\n**Comparison Factors:**\n* Features and capabilities\n* Performance and efficiency\n* Cost and value\n* User experiences and reviews">>
           [] OTHER -> <<>>)

generateConclusion(query, queryType, themes) ==
  CASE queryType = "definition" -> <<"This definition should provide a solid foundation for understanding the topic. For more specific information, consider exploring particular aspects that interest you.">>
    [] queryType = "howto" -> <<"Following these steps should help you achieve your goal. Remember that specific situations may require adjustments to this general approach.">>
    [] queryType = "explanation" -> <<"These factors help explain the reasoning behind the topic. Keep in mind that complex issues often have multiple contributing factors.">>
    [] queryType = "comparison" -> <<"This comparison should help you make an informed decision. Consider your specific needs and priorities when choosing between options.">>
    [] queryType = "review" -> <<"This review provides an overview based on available information. Personal experiences may vary, so consider multiple perspectives.">>
    [] queryType = "historical" -> <<"This historical context helps understand how the topic developed over time. Current practices and understanding are often built on this foundation.">>
    [] queryType = "news" -> <<"This information reflects the current state of knowledge. For rapidly evolving topics, check for more recent updates as they become available.">>
    [] queryType = "benefits" -> <<"These benefits highlight the positive aspects of the topic. Consider how they align with your specific needs and goals.">>
    [] queryType = "drawbacks" -> <<"These considerations help identify potential challenges. Being aware of them allows for better planning and risk management.">>
    [] OTHER -> <<"This information provides a comprehensive overview of the topic. For more specific details, consider exploring particular aspects that interest you.">>

SourcesShown == 5

NotFoundHeading == <<"(lens) I couldn't find specific information about \"">>

\* synthesizeFromSearch, were every result listed and summarised
synthesizeFromSearchUnsliced(query, searchResults) ==
  IF Len(searchResults) = 0
  THEN NotFoundHeading \o query
       \o <<"\". This could be due to:\n\n* The query being very specific or recent\n* Limited information available on this topic\n* Possible spelling or phrasing issues\n\nTry rephrasing your question or provide more context.">>
  ELSE LET queryType == determineQueryType(query)
           themes    == identifyThemes(searchResults)
           sources   == join([i \in 1..Len(searchResults) |->
                               <<"[">> \o numToString(i) \o <<"] [">> \o searchResults[i].title
                               \o <<"](">> \o searchResults[i].url \o <<")">>], <<"\n">>)
       IN generateIntroduction(query, queryType, themes) \o <<"\n\n">>
          \o generateMainContent(query, queryType, extractKeyFacts(searchResults), searchResults)
          \o <<"\n\n">> \o generateConclusion(query, queryType, themes)
          \o <<"\n\n---\n\n**(link) Sources:**\n">> \o sources

synthesizeFromSearch(query, searchResults) ==
  IF Len(searchResults) = 0
  THEN NotFoundHeading \o query
       \o <<"\". This could be due to:\n\n* The query being very specific or recent\n* Limited information available on this topic\n* Possible spelling or phrasing issues\n\nTry rephrasing your question or provide more context.">>
  ELSE LET topResults == SubSeq(searchResults, 1,
                           IF Len(searchResults) < SourcesShown THEN Len(searchResults) ELSE SourcesShown)
           keyFacts   == extractKeyFacts(topResults)
           themes     == identifyThemes(topResults)
           queryType  == determineQueryType(query)
           sources    == join([i \in 1..Len(topResults) |->
                                <<"[">> \o numToString(i) \o <<"] [">> \o topResults[i].title
                                \o <<"](">> \o topResults[i].url \o <<")">>], <<"\n">>)
       IN generateIntroduction(query, queryType, themes) \o <<"\n\n">>
          \o generateMainContent(query, queryType, keyFacts, topResults) \o <<"\n\n">>
          \o generateConclusion(query, queryType, themes)
          \o <<"\n\n---\n\n**(link) Sources:**\n">> \o sources

(***************************************************************************)
(* The AI completion step and the answer of POST /chat                     *)
(***************************************************************************)
AiText == <<"[generated text]">>

\* what the AI completion call can do: throw, or answer with or without content
AiOutcomes ==
  {[threw |-> TRUE, content |-> Undefined]}
  \cup {[threw |-> FALSE, content |-> c] : c \in {Undefined, <<>>, AiText}}

NoAi == [threw |-> FALSE, content |-> Undefined]

\* whether POST calls the AI completion provider
aiConfigured(v, e) ==
  CASE v = "hf" -> e.HUGGINGFACE_API_KEY
    [] v \in {"zaiJs", "zaiTs"} -> e.ZAI_ENABLED
    [] v = "zaiSdk" -> TRUE
    [] v = "serper" -> FALSE

Apology(v) ==
  IF v = "serper"
  THEN <<"I apologize, but something went wrong. Please try again later.">>
  ELSE <<"I apologize, but I'm experiencing technical difficulties at the moment. Please try again later.">>

NoCompletion == <<"I apologize, but I could not generate a response at the moment.">>

\* the text POST answers with once the search and the AI step are over;
\* ctl = "raise" when the error of the AI call reaches POST's own catch
finalResponse(v, message, searchResults, ai) ==
  CASE v \in {"hf", "zaiJs", "zaiTs"} ->
         LET aiContent == IF ai.threw THEN Undefined ELSE orElse(ai.content, Undefined)
         IN [ctl |-> "ok",
             text |-> IF aiContent # Undefined
                      THEN aiContent \o formatSources(v, searchResults)
                      ELSE localAIGenerate(v, message, searchResults)]
    [] v = "zaiSdk" ->
         IF ai.threw THEN [ctl |-> "raise", text |-> <<>>]
         ELSE [ctl |-> "ok",
               text |-> orElse(ai.content, NoCompletion) \o formatSources(v, searchResults)]
    [] v = "serper" ->
         [ctl |-> "ok", text |-> synthesizeFromSearch(message, searchResults)]

NoResponse == [status |-> 0, error |-> Undefined, response |-> Undefined, sources |-> <<>>]

BadRequest ==
  [status |-> 400, error |-> <<"Message is required">>, response |-> Undefined, sources |-> <<>>]

\* NextResponse.json(...) of POST's catch: no status is given, so it is 200
caught(v) ==
  [status |-> 200, error |-> ErrorMessage, response |-> Apology(v), sources |-> <<>>]

answered(text, searchResults) ==
  [status |-> 200, error |-> Undefined, response |-> text, sources |-> searchResults]

(***************************************************************************)
(* GET /files and the flat-file store                                      *)
(***************************************************************************)
\* The two versions of the files route:
\*   "synth" src/app/api/files/route.ts (serves, or generates and saves)
\*   "plain" unnamed/part_002           (serves only, no try/catch)
FilesRoutes == {"synth", "plain"}

\* bounds on what Date.now() and Math.random() contribute to generated bytes
MaxTime == 1
MaxNoise == 1

Times == 0..MaxTime
Noises == 0..MaxNoise

DotName == <<".">>

\* the names that requests ask for; "." is the store directory itself
Filenames ==
  { <<"a",".","m","p","4">>,
    <<"y","o","u","t","u","b","e","_","a",".","m","p","4">>,
    <<"y","o","u","t","u","b","e","_","7","2","0","p",".","m","p","4">>,
    <<"y","o","u","t","u","b","e","_","a",".","t","x","t">>,
    <<"B",".","J","P","G">>,
    <<"c","u","s","t","o","m",".","d","b">>,
    DotName }

\* searchParams.get('filename'): null when absent, possibly empty
FilenameParams == Filenames \cup {Undefined, <<>>}

\* A buffer is kept as the list of its boxes (type, size in bytes, value of
\* the length field) with the clock value and the random fill written in it.
EmptyBuffer == [boxes |-> <<>>, stamp |-> 0, noise |-> 0]

RawBuffer == [boxes |-> <<[type |-> "raw", size |-> 3, lengthField |-> 0]>>,
              stamp |-> 0, noise |-> 0]

RECURSIVE sumSizes(_)
sumSizes(boxes) == IF boxes = <<>> THEN 0 ELSE Head(boxes).size + sumSizes(Tail(boxes))

\* Buffer.length
byteLength(buf) == sumSizes(buf.boxes)

NoEntry  == [kind |-> "none", data |-> EmptyBuffer]
DirEntry == [kind |-> "dir",  data |-> EmptyBuffer]
FileEntry(buf) == [kind |-> "file", data |-> buf]

\* the stores a process can start with: "." is a directory, any other name
\* is absent or a file written earlier
InitialStores ==
  { st \in [Filenames -> {NoEntry, DirEntry, FileEntry(RawBuffer)}] :
      /\ st[DotName] = DirEntry
      /\ \A f \in Filenames \ {DotName} : st[f] # DirEntry }

\* an existence test that sees nothing outside the store directory
existsInside(st, filename) ==
  /\ ~(filename = <<".", ".">> \/ SubSeq(filename, 1, 3) = <<".", ".", "/">>)
  /\ st[filename].kind # "none"

\* an existence test that finds nothing
existsNever(st, filename) == FALSE

\* fs.existsSync
existsSync(st, filename) == st[filename].kind # "none"

\* how fs.writeFileSync can end: the file written, an error with nothing
\* created, an error that leaves a truncated file behind
WriteOutcomes == {"ok", "failClean", "failPartial"}

\* writeFileSync, were nothing ever saved
writeNothing(st, filename, buf, w) == st

writeFileSync(st, filename, buf, w) ==
  CASE w = "ok"          -> [st EXCEPT ![filename] = FileEntry(buf)]
    [] w = "failClean"   -> st
    [] w = "failPartial" -> [st EXCEPT ![filename] = FileEntry(EmptyBuffer)]

FtypSize == 32
MvhdSize == 108
TkhdSize == 92
MdatHeader == 8

generateYouTubeVideo(filename, now, noise) ==
  LET is720p   == includes(filename, <<"7","2","0","p">>)
      mdatSize == IF is720p THEN 800000 ELSE 300000
      totalSize == FtypSize + MvhdSize + TkhdSize + (mdatSize + MdatHeader)
  IN [boxes |-> << [type |-> "ftyp", size |-> FtypSize, lengthField |-> totalSize],
                   [type |-> "mvhd", size |-> MvhdSize, lengthField |-> MvhdSize],
                   [type |-> "tkhd", size |-> TkhdSize, lengthField |-> TkhdSize],
                   [type |-> "mdat", size |-> mdatSize + MdatHeader,
                    lengthField |-> mdatSize + MdatHeader] >>,
      stamp |-> now, noise |-> noise]

\* the last index of character c in s, 0 if there is none
lastIndexOf(s, c) ==
  IF \E i \in 1..Len(s) : s[i] = c
  THEN CHOOSE i \in 1..Len(s) : s[i] = c /\ \A j \in (i + 1)..Len(s) : s[j] # c
  ELSE 0

\* path.extname (names without a trailing slash)
extname(filename) ==
  LET base == SubSeq(filename, lastIndexOf(filename, "/") + 1, Len(filename))
      k    == lastIndexOf(base, ".")
  IN IF k <= 1 \/ base = <<".", ".">> THEN <<>> ELSE SubSeq(base, k, Len(base))

OctetStream == <<"application/octet-stream">>

\* the content type of each version for a lower-cased extension
contentTypeOf(v, ext) ==
  CASE ext = <<".","j","p","g">> \/ ext = <<".","j","p","e","g">> -> <<"image/jpeg">>
    [] ext = <<".","p","n","g">> -> <<"image/png">>
    [] ext = <<".","s","v","g">> /\ v = "synth" -> <<"image/svg+xml">>
    [] ext = <<".","m","p","3">> -> <<"audio/mpeg">>
    [] ext = <<".","m","p","4">> -> <<"video/mp4">>
    [] ext = <<".","t","x","t">> -> <<"text/plain">>
    [] OTHER -> OctetStream

NoFileResponse ==
  [status |-> 0, thrown |-> FALSE, error |-> Undefined, contentType |-> Undefined,
   disposition |-> Undefined, contentLength |-> Undefined, body |-> EmptyBuffer]

\* NextResponse.json({ error }, { status })
fileError(status, text) == [NoFileResponse EXCEPT !.status = status, !.error = text]

\* the handler ended with an exception that nothing in it catches
fileThrown == [NoFileResponse EXCEPT !.thrown = TRUE]

\* new NextResponse(fileBuffer, { status: 200, headers })
fileServed(v, filename, buf) ==
  [status |-> 200, thrown |-> FALSE, error |-> Undefined,
   contentType |-> contentTypeOf(v, toLowerCase(extname(filename))),
   disposition |-> <<"attachment; filename=\"">> \o filename \o <<"\"">>,
   contentLength |-> numToString(byteLength(buf)),
   body |-> buf]

\* eligible, were one of the two tests on the name enough
eligibleEither(filename) ==
  \/ includes(filename, <<"y","o","u","t","u","b","e","_">>)
  \/ endsWith(filename, <<".","m","p","4">>)

\* whether a missing file is generated on demand
eligible(filename) ==
  /\ includes(filename, <<"y","o","u","t","u","b","e","_">>)
  /\ endsWith(filename, <<".","m","p","4">>)

\* an error inside the handler: files/route.ts catches it, part_002 does not
fileFailure(v) ==
  IF v = "synth" THEN fileError(500, <<"Failed to download file">>) ELSE fileThrown

\* String.prototype.split on a one-character separator
RECURSIVE splitOn(_, _)
splitOn(s, c) ==
  IF \E i \in 1..Len(s) : s[i] = c
  THEN LET k == CHOOSE i \in 1..Len(s) : s[i] = c /\ \A j \in 1..(i - 1) : s[j] # c
       IN <<SubSeq(s, 1, k - 1)>> \o splitOn(SubSeq(s, k + 1, Len(s)), c)
  ELSE <<s>>

\* the segments of a path between its slashes
segments(s) == splitOn(s, "/")

\* path normalisation: "." and empty segments vanish, ".." removes the segment
\* before it, or stays when there is none left to remove
RECURSIVE normalize(_, _)
normalize(segs, acc) ==
  IF segs = <<>> THEN acc
  ELSE LET h == Head(segs)
       IN IF h = <<>> \/ h = <<".">> THEN normalize(Tail(segs), acc)
          ELSE IF h = <<".", ".">> /\ acc # <<>> /\ acc[Len(acc)] # <<".", ".">>
          THEN normalize(Tail(segs), SubSeq(acc, 1, Len(acc) - 1))
          ELSE normalize(Tail(segs), Append(acc, h))

\* path.join(process.cwd(), 'db', filename), written relative to db/:
\* "." is db/ itself, a path that begins with ".." lies outside db/
pathJoin(filename) ==
  LET segs == normalize(segments(filename), <<>>)
  IN IF segs = <<>> THEN DotName ELSE join(segs, <<"/">>)

\* the path leaves the store directory
outside(filePath) == filePath = <<".", ".">> \/ startsWith(filePath, <<".", ".", "/">>)

\* GET of the files route: the store it leaves, the response it gives, and
\* whether it generated and wrote
GET(v, st, filename, w, now, noise) ==
  IF filename = Undefined \/ filename = <<>>
  THEN [store |-> st, response |-> fileError(400, <<"Filename is required">>), effects |-> {}]
  ELSE LET filePath == pathJoin(filename) IN
  IF existsSync(st, filePath)
  THEN IF st[filePath].kind = "dir"
       THEN [store |-> st, response |-> fileFailure(v), effects |-> {}]
       ELSE [store |-> st, response |-> fileServed(v, filename, st[filePath].data),
             effects |-> {}]
  ELSE IF v = "synth" /\ eligible(filename)
  THEN LET fileBuffer == generateYouTubeVideo(filename, now, noise)
       IN [store |-> writeFileSync(st, filePath, fileBuffer, w),
           response |-> IF w = "ok" THEN fileServed(v, filename, fileBuffer)
                        ELSE fileFailure(v),
           effects |-> {"generate", "write"}]
  ELSE [store |-> st, response |-> fileError(404, <<"File not found">>), effects |-> {}]

(***************************************************************************)
(* Content types and media types by extension (real-media/route.ts)        *)
(***************************************************************************)
\* url.split('.').pop(): the text after the last dot, the whole text when
\* there is no dot
lastPart(url) == SubSeq(url, lastIndexOf(url, ".") + 1, Len(url))

\* the mimeTypes table of real-media/route.ts
mimeTypes ==
  { [extension |-> <<"j","p","g">>, type |-> <<"image/jpeg">>],
    [extension |-> <<"j","p","e","g">>, type |-> <<"image/jpeg">>],
    [extension |-> <<"p","n","g">>, type |-> <<"image/png">>],
    [extension |-> <<"g","i","f">>, type |-> <<"image/gif">>],
    [extension |-> <<"s","v","g">>, type |-> <<"image/svg+xml">>],
    [extension |-> <<"w","e","b","p">>, type |-> <<"image/webp">>],
    [extension |-> <<"m","p","3">>, type |-> <<"audio/mpeg">>],
    [extension |-> <<"w","a","v">>, type |-> <<"audio/wav">>],
    [extension |-> <<"o","g","g">>, type |-> <<"audio/ogg">>],
    [extension |-> <<"a","a","c">>, type |-> <<"audio/aac">>],
    [extension |-> <<"f","l","a","c">>, type |-> <<"audio/flac">>],
    [extension |-> <<"m","p","4">>, type |-> <<"video/mp4">>],
    [extension |-> <<"a","v","i">>, type |-> <<"video/x-msvideo">>],
    [extension |-> <<"m","o","v">>, type |-> <<"video/quicktime">>],
    [extension |-> <<"w","m","v">>, type |-> <<"video/x-ms-wmv">>],
    [extension |-> <<"w","e","b","m">>, type |-> <<"video/webm">>],
    [extension |-> <<"m","k","v">>, type |-> <<"video/x-matroska">>],
    [extension |-> <<"p","d","f">>, type |-> <<"application/pdf">>],
    [extension |-> <<"d","o","c">>, type |-> <<"application/msword">>],
    [extension |-> <<"d","o","c","x">>, type |-> <<"application/vnd.openxmlformats-officedocument.wordprocessingml.document">>],
    [extension |-> <<"t","x","t">>, type |-> <<"text/plain">>],
    [extension |-> <<"r","t","f">>, type |-> <<"application/rtf">>] }

getContentTypeFromUrl(url) ==
  LET extension == toLowerCase(lastPart(url))
  IN IF \E e \in mimeTypes : e.extension = extension
     THEN (CHOOSE e \in mimeTypes : e.extension = extension).type
     ELSE OctetStream

getMediaTypeFromUrl(url) ==
  LET extension == toLowerCase(lastPart(url))
  IN CASE  extension \in {<<"j","p","g">>, <<"j","p","e","g">>, <<"p","n","g">>, <<"g","i","f">>, <<"s","v","g">>, <<"w","e","b","p">>} -> "image"
       [] extension \in {<<"m","p","3">>, <<"w","a","v">>, <<"o","g","g">>, <<"a","a","c">>, <<"f","l","a","c">>} -> "audio"
       [] extension \in {<<"m","p","4">>, <<"a","v","i">>, <<"m","o","v">>, <<"w","m","v">>, <<"w","e","b","m">>, <<"m","k","v">>} -> "video"
       [] extension \in {<<"p","d","f">>, <<"d","o","c">>, <<"d","o","c","x">>, <<"t","x","t">>, <<"r","t","f">>} -> "document"
       [] OTHER -> "unknown"

(***************************************************************************)
(* Container byte builders                                                 *)
(***************************************************************************)
\* Buffer.alloc(n)
alloc(n) == [i \in 1..n |-> 0]

\* the bytes buf holds once `bytes` are written at `offset`
writeAt(buf, offset, bytes) ==
  [i \in 1..Len(buf) |->
     IF i > offset /\ i <= offset + Len(bytes) THEN bytes[i - offset] ELSE buf[i]]

\* the four bytes of writeUInt32LE / writeUInt32BE and the two of
\* writeUInt16LE, for the values the builders write (all below 2^31)
uint32LE(v) == <<v % 256, (v \div 256) % 256, (v \div 65536) % 256, (v \div 16777216) % 256>>
uint32BE(v) == <<(v \div 16777216) % 256, (v \div 65536) % 256, (v \div 256) % 256, v % 256>>
uint16LE(v) == <<v % 256, (v \div 256) % 256>>

\* Buffer.readUInt32LE / readUInt32BE
readUInt32LE(buf, offset) ==
  buf[offset + 1] + 256 * buf[offset + 2] + 65536 * buf[offset + 3] + 16777216 * buf[offset + 4]
readUInt32BE(buf, offset) ==
  16777216 * buf[offset + 1] + 65536 * buf[offset + 2] + 256 * buf[offset + 3] + buf[offset + 4]

\* the character codes Buffer.write stores for the tags the builders write
charCode(c) ==
  CASE c = "R" -> 82  [] c = "I" -> 73  [] c = "F" -> 70  [] c = "W" -> 87
    [] c = "A" -> 65  [] c = "V" -> 86  [] c = "E" -> 69  [] c = "f" -> 102
    [] c = "m" -> 109 [] c = "t" -> 116 [] c = " " -> 32  [] c = "d" -> 100
    [] c = "a" -> 97

ascii(s) == [i \in 1..Len(s) |-> charCode(s[i])]

\* generateRealAudioFile's constants
SampleRate == 44100
Duration == 3
numSamples == SampleRate * Duration

\* generateRealAudioFile's 44-byte header
wavHeader ==
  LET h0  == alloc(44)
      h1  == writeAt(h0, 0, ascii(<<"R","I","F","F">>))
      h2  == writeAt(h1, 4, uint32LE(36 + numSamples * 2))
      h3  == writeAt(h2, 8, ascii(<<"W","A","V","E">>))
      h4  == writeAt(h3, 12, ascii(<<"f","m","t"," ">>))
      h5  == writeAt(h4, 16, uint32LE(16))
      h6  == writeAt(h5, 20, uint16LE(1))
      h7  == writeAt(h6, 22, uint16LE(1))
      h8  == writeAt(h7, 24, uint32LE(SampleRate))
      h9  == writeAt(h8, 28, uint32LE(SampleRate * 2))
      h10 == writeAt(h9, 32, uint16LE(2))
      h11 == writeAt(h10, 34, uint16LE(16))
      h12 == writeAt(h11, 36, ascii(<<"d","a","t","a">>))
  IN writeAt(h12, 40, uint32LE(numSamples * 2))

\* generateRealAudioFile, were the samples one byte each (8-bit audio)
generateRealAudioFile8bit(filename) ==
  [boxes |-> << [type |-> "wavHeader", size |-> Len(wavHeader),
                 lengthField |-> readUInt32LE(wavHeader, 4)],
                [type |-> "audioData", size |-> numSamples,
                 lengthField |-> readUInt32LE(wavHeader, 40)] >>,
   stamp |-> 0, noise |-> 0]

\* generateRealAudioFile: Buffer.concat([wavHeader, audioData]); the header is
\* kept with the value of its RIFF size field, the samples with the value of
\* the data size field
generateRealAudioFile(filename) ==
  [boxes |-> << [type |-> "wavHeader", size |-> Len(wavHeader),
                 lengthField |-> readUInt32LE(wavHeader, 4)],
                [type |-> "audioData", size |-> numSamples * 2,
                 lengthField |-> readUInt32LE(wavHeader, 40)] >>,
   stamp |-> 0, noise |-> 0]

\* generateRealImageFile: the seven parts it concatenates; the quantization
\* table is random
ImageWidth == 800
ImageHeight == 600

generateRealImageFile(filename, noise) ==
  [boxes |-> << [type |-> "jpegHeader", size |-> 24, lengthField |-> 0],
                [type |-> "quantTable", size |-> 67, lengthField |-> 0],
                [type |-> "sofMarker", size |-> 19, lengthField |-> 0],
                [type |-> "huffmanTable", size |-> 32, lengthField |-> 0],
                [type |-> "sosMarker", size |-> 14, lengthField |-> 0],
                [type |-> "imageData", size |-> ImageWidth * ImageHeight * 3, lengthField |-> 0],
                [type |-> "eoiMarker", size |-> 2, lengthField |-> 0] >>,
   stamp |-> 0, noise |-> noise]

\* generateRealVideoFile: ftyp, mvhd, an 8-byte mdat header and 500000 random
\* bytes
SampleMdat == 500000

generateRealVideoFile(filename, now, noise) ==
  [boxes |-> << [type |-> "ftyp", size |-> FtypSize, lengthField |-> 32],
                [type |-> "mvhd", size |-> MvhdSize, lengthField |-> 108],
                [type |-> "mdat", size |-> MdatHeader + SampleMdat,
                 lengthField |-> SampleMdat + 8] >>,
   stamp |-> now, noise |-> noise]

\* the buffer downloadYouTubeVideo builds for a quality
videoSizeOf(quality) ==
  IF quality = <<"7","2","0","p">> THEN 15000000
  ELSE IF quality = <<"3","6","0","p">> THEN 8000000 ELSE 3000000

videoBuffer(quality, now) ==
  [boxes |-> << [type |-> "ftyp", size |-> FtypSize, lengthField |-> 32],
                [type |-> "mvhd", size |-> MvhdSize, lengthField |-> 108],
                [type |-> "mdat", size |-> MdatHeader + videoSizeOf(quality),
                 lengthField |-> videoSizeOf(quality) + 8] >>,
   stamp |-> now, noise |-> 0]

\* Math.floor(Math.max(0, Math.min(255, Math.sin(i * 0.01) * 127 + 128))) for i = 0, 1, ...
sinePatternTable ==
  << 128, 129, 130, 131, 133, 134, 135, 136, 138, 139, 140, 141, 143, 144, 145, 146, 148, 149, 150, 151,
     153, 154, 155, 156, 158, 159, 160, 161, 163, 164, 165, 166, 167, 169, 170, 171, 172, 173, 175, 176,
     177, 178, 179, 180, 182, 183, 184, 185, 186, 187, 188, 189, 191, 192, 193, 194, 195, 196, 197, 198,
     199, 200, 201, 202, 203, 204, 205, 206, 207, 208, 209, 210, 211, 212, 213, 214, 215, 216, 217, 218,
     219, 219, 220, 221, 222, 223, 224, 225, 225, 226, 227, 228, 229, 229, 230, 231, 232, 232, 233, 234,
     234, 235, 236, 236, 237, 238, 238, 239, 240, 240, 241, 241, 242, 242, 243, 243, 244, 244, 245, 245,
     246, 246, 247, 247, 248, 248, 248, 249, 249, 250, 250, 250, 251, 251, 251, 251, 252, 252, 252, 252,
     253, 253, 253, 253, 253, 254, 254, 254, 254, 254, 254, 254, 254, 254, 254, 254, 254, 254, 254, 254,
     254, 254, 254, 254, 254, 254, 254, 254, 254, 254, 253, 253, 253, 253, 253, 252, 252, 252, 252, 251,
     251, 251, 251, 250, 250, 250, 249, 249, 248, 248, 248, 247, 247, 246, 246, 245, 245, 245, 244, 244,
     243, 242, 242, 241, 241, 240, 240, 239, 238, 238, 237, 236, 236, 235, 234, 234, 233, 232, 232, 231,
     230, 229, 229, 228, 227, 226, 226, 225, 224, 223, 222, 221, 220, 220, 219, 218, 217, 216, 215, 214,
     213, 212, 211, 210, 209, 208, 208, 207, 206, 205, 204, 202, 201, 200, 199, 198, 197, 196, 195, 194,
     193, 192, 191, 190, 189, 187, 186, 185, 184, 183, 182, 181, 179, 178, 177, 176, 175, 174, 172, 171,
     170, 169, 168, 166, 165, 164, 163, 162, 160, 159, 158, 157, 155, 154, 153, 152, 150, 149, 148, 147,
     145, 144, 143, 142, 140, 139, 138, 137, 135, 134, 133, 132 >>

\* Math.floor(Math.max(0, Math.min(255, Math.sin(i * 0.001) * 127 + 128))) for i = 0, 1, ...
slowSinePatternTable ==
  << 128, 128, 128, 128, 128, 128, 128, 128, 129, 129, 129, 129, 129, 129, 129, 129, 130, 130, 130, 130,
     130, 130, 130, 130, 131, 131, 131, 131, 131, 131, 131, 131, 132, 132, 132, 132, 132, 132, 132, 132,
     133, 133, 133, 133, 133, 133, 133, 133, 134, 134, 134, 134, 134, 134, 134, 134, 135, 135, 135, 135,
     135, 135, 135, 135, 136, 136, 136, 136, 136, 136, 136, 137, 137, 137, 137, 137, 137, 137, 137, 138,
     138, 138, 138, 138, 138, 138, 138, 139, 139, 139, 139, 139, 139, 139, 139, 140, 140, 140, 140, 140,
     140, 140, 140, 141, 141, 141, 141, 141, 141, 141, 141, 142, 142, 142, 142, 142, 142, 142, 142, 143,
     143, 143, 143, 143, 143, 143, 143, 144, 144, 144, 144, 144, 144, 144, 144, 145, 145, 145, 145, 145,
     145, 145, 145, 146, 146, 146, 146, 146, 146, 146, 146, 147, 147, 147, 147, 147, 147, 147, 147, 148,
     148, 148, 148, 148, 148, 148, 148, 149, 149, 149, 149, 149, 149, 149, 149, 150, 150, 150, 150, 150,
     150, 150, 150, 151, 151, 151, 151, 151, 151, 151, 151, 152, 152, 152, 152, 152, 152, 152, 152, 153,
     153, 153, 153, 153, 153, 153, 153, 154, 154, 154, 154, 154, 154, 154, 154, 155, 155, 155, 155, 155,
     155, 155, 155, 156, 156, 156, 156, 156, 156, 156, 156, 157, 157, 157, 157, 157, 157, 157, 157, 158,
     158, 158, 158, 158, 158, 158, 158, 159, 159, 159, 159, 159, 159, 159, 159, 160, 160, 160, 160, 160,
     160, 160, 160, 161, 161, 161, 161, 161, 161, 161, 161, 161, 162, 162, 162, 162, 162, 162, 162, 162,
     163, 163, 163, 163, 163, 163, 163, 163, 164, 164, 164, 164, 164, 164, 164, 164, 165, 165, 165, 165,
     165, 165, 165, 165, 166, 166, 166, 166, 166, 166, 166, 166 >>

\* the payload sizes the fill loops are run with: whole numbers of 100-byte
\* frames, as the sizes in the code are
MaxFrames == 2
PayloadSizes == {100 * k : k \in 1..MaxFrames}

sinePattern(i) == sinePatternTable[i + 1]
slowSinePattern(i) == slowSinePatternTable[i + 1]

\* Buffer.writeUInt8(value, offset): a RangeError beyond the end of the buffer
writeUInt8(b, value, offset) ==
  IF b.threw \/ offset >= Len(b.bytes) THEN [b EXCEPT !.threw = TRUE]
  ELSE [b EXCEPT !.bytes[offset + 1] = value]

\* one iteration of the fill loop of generateYouTubeVideo; `random` is the
\* byte Math.random() gives. A write that threw ends the loop.
fillStep(i, mdat, random) ==
  IF mdat.threw THEN mdat
  ELSE IF i % 100 = 0
  THEN LET b1 == writeUInt8(mdat, 0, i + 8)
           b2 == writeUInt8(b1, 0, i + 9)
           b3 == writeUInt8(b2, 1, i + 10)
       IN writeUInt8(b3, IF i % 3 = 0 THEN 103 ELSE 65, i + 11)
  ELSE IF i % 50 = 0
  THEN writeUInt8(mdat, random, i + 8)
  ELSE writeUInt8(mdat, sinePattern(i), i + 8)

\* the iterations i, i+1, ..., mdatSize-1 of the fill loop, in that order
RECURSIVE fillFrom(_, _, _, _)
fillFrom(i, mdatSize, mdat, random) ==
  IF i >= mdatSize THEN mdat
  ELSE IF mdatSize - i = 1 THEN fillStep(i, mdat, random)
  ELSE LET half == i + (mdatSize - i) \div 2
           first == fillFrom(i, half, mdat, random)
       IN IF first.threw THEN first ELSE fillFrom(half, mdatSize, first, random)

\* the mdat box of generateYouTubeVideo for a payload of mdatSize bytes
mdatBox(mdatSize, random) ==
  LET m0 == alloc(mdatSize + 8)
      m1 == writeAt(m0, 0, uint32BE(mdatSize + 8))
      m2 == writeAt(m1, 4, ascii(<<"m","d","a","t">>))
  IN fillFrom(0, mdatSize, [bytes |-> m2, threw |-> FALSE], random)

\* one iteration of the fill loop of downloadYouTubeVideo
fillDownloadStep(i, mdat) ==
  IF mdat.threw THEN mdat
  ELSE IF i % 100 = 0
  THEN LET b1 == writeUInt8(mdat, 0, i)
           b2 == writeUInt8(b1, 0, i + 1)
           b3 == writeUInt8(b2, 1, i + 2)
       IN writeUInt8(b3, IF i % 3 = 0 THEN 103 ELSE 65, i + 3)
  ELSE writeUInt8(mdat, slowSinePattern(i), i)

\* the iterations i, i+1, ..., videoSize-1 of the fill loop, in that order
RECURSIVE fillDownloadFrom(_, _, _)
fillDownloadFrom(i, videoSize, mdat) ==
  IF i >= videoSize THEN mdat
  ELSE IF videoSize - i = 1 THEN fillDownloadStep(i, mdat)
  ELSE LET half == i + (videoSize - i) \div 2
           first == fillDownloadFrom(i, half, mdat)
       IN IF first.threw THEN first ELSE fillDownloadFrom(half, videoSize, first)

\* the mdat payload of downloadYouTubeVideo for videoSize bytes
mdatPayload(videoSize) ==
  fillDownloadFrom(0, videoSize, [bytes |-> alloc(videoSize), threw |-> FALSE])

(***************************************************************************)
(* GET /real-media: sample batches and the listing (real-media/route.ts)   *)
(***************************************************************************)
\* Date.now() in milliseconds at the requests that mint filenames. Files found
\* when the process starts have modification time 0; a request that mints
\* names takes longer than a millisecond, so the next one reads a later clock.
MaxClock == 1
Clocks == 1..MaxClock

CustomDb == <<"c","u","s","t","o","m",".","d","b">>

\* `real_${kind}_sample${n}_${timestamp}${ext}`
sampleName(kind, n, timestamp, ext) ==
  <<"r","e","a","l","_">> \o kind \o <<"_","s","a","m","p","l","e">> \o <<n>> \o <<"_">>
    \o numToString(timestamp) \o ext

imageFiles(timestamp, noise) ==
  LET n1 == sampleName(<<"i","m","a","g","e">>, "1", timestamp, <<".","j","p","g">>)
      n2 == sampleName(<<"i","m","a","g","e">>, "2", timestamp, <<".","j","p","g">>)
  IN << [name |-> n1, type |-> "image", buffer |-> generateRealImageFile(n1, noise)],
        [name |-> n2, type |-> "image", buffer |-> generateRealImageFile(n2, noise)] >>

audioFiles(timestamp) ==
  LET n1 == sampleName(<<"a","u","d","i","o">>, "1", timestamp, <<".","w","a","v">>)
      n2 == sampleName(<<"a","u","d","i","o">>, "2", timestamp, <<".","w","a","v">>)
  IN << [name |-> n1, type |-> "audio", buffer |-> generateRealAudioFile(n1)],
        [name |-> n2, type |-> "audio", buffer |-> generateRealAudioFile(n2)] >>

videoFiles(timestamp, noise) ==
  LET n1 == sampleName(<<"v","i","d","e","o">>, "1", timestamp, <<".","m","p","4">>)
      n2 == sampleName(<<"v","i","d","e","o">>, "2", timestamp, <<".","m","p","4">>)
  IN << [name |-> n1, type |-> "video", buffer |-> generateRealVideoFile(n1, timestamp, noise)],
        [name |-> n2, type |-> "video", buffer |-> generateRealVideoFile(n2, timestamp, noise)] >>

\* the files a batch of the given type generates, in the order it writes them
sampleFiles(type, timestamp, noise) ==
  (IF type \in {<<"all">>, <<"images">>} THEN imageFiles(timestamp, noise) ELSE <<>>)
  \o (IF type \in {<<"all">>, <<"audio">>} THEN audioFiles(timestamp) ELSE <<>>)
  \o (IF type \in {<<"all">>, <<"videos">>} THEN videoFiles(timestamp, noise) ELSE <<>>)

\* what can go wrong in a batch: nothing, or the write number `at` fails
BatchWrites == Len(sampleFiles(<<"all">>, 1, 0))
Faults ==
  {[w |-> "ok", at |-> 0]}
  \cup {[w |-> w, at |-> k] : w \in WriteOutcomes \ {"ok"}, k \in 1..BatchWrites}

FilesUrl == <<"/api/files?filename=">>

\* the modification times once `filePath` is written at time `now` with
\* outcome w
touch(mt, filePath, now, w) ==
  IF w = "failClean" THEN mt ELSE [mt EXCEPT ![filePath] = now]

\* the write loops of generateSampleFiles from write number k on
RECURSIVE writeFiles(_, _, _, _, _, _, _)
writeFiles(files, k, st, mt, results, timestamp, fault) ==
  IF files = <<>>
  THEN [store |-> st, mtime |-> mt, success |-> TRUE, files |-> results]
  ELSE LET file     == Head(files)
           filePath == pathJoin(file.name)
       IN IF fault.w # "ok" /\ fault.at = k
          THEN [store |-> writeFileSync(st, filePath, file.buffer, fault.w),
                mtime |-> touch(mt, filePath, timestamp, fault.w),
                success |-> FALSE, files |-> <<>>]
          ELSE writeFiles(Tail(files), k + 1,
                          writeFileSync(st, filePath, file.buffer, "ok"),
                          touch(mt, filePath, timestamp, "ok"),
                          Append(results, [filename |-> file.name, type |-> file.type,
                                           size |-> byteLength(file.buffer),
                                           url |-> FilesUrl \o file.name]),
                          timestamp, fault)

generateSampleFiles(type, st, mt, timestamp, noise, fault) ==
  writeFiles(sampleFiles(type, timestamp, noise), 1, st, mt, <<>>, timestamp, fault)

\* a set as a sequence, in an order fixed by the set
RECURSIVE setToSeq(_)
setToSeq(S) ==
  IF S = {} THEN <<>>
  ELSE LET x == CHOOSE y \in S : TRUE IN <<x>> \o setToSeq(S \ {x})

RECURSIVE reverse(_)
reverse(s) == IF s = <<>> THEN <<>> ELSE Append(reverse(Tail(s)), Head(s))

\* the path names an entry directly inside db/
isEntry(st, filePath) ==
  /\ filePath # DotName
  /\ ~outside(filePath)
  /\ \A i \in 1..Len(filePath) : filePath[i] # "/"
  /\ existsSync(st, filePath)

\* fs.readdirSync(dbPath): the entries in directory order, which is one
\* order or its reverse
readdirSync(st, reversed) ==
  LET entries == setToSeq({p \in DOMAIN st : isEntry(st, p)})
  IN IF reversed THEN reverse(entries) ELSE entries

\* where a stable sort by (a, b) => b.modifiedAt - a.modifiedAt puts entry e
\* into a list that is already sorted
RECURSIVE insertSorted(_, _)
insertSorted(sorted, e) ==
  IF sorted = <<>> THEN <<e>>
  ELSE IF Head(sorted).modifiedAt >= e.modifiedAt
  THEN <<Head(sorted)>> \o insertSorted(Tail(sorted), e)
  ELSE <<e>> \o sorted

\* Array.prototype.sort with that comparator
RECURSIVE sortByModified(_, _)
sortByModified(files, sorted) ==
  IF files = <<>> THEN sorted
  ELSE sortByModified(Tail(files), insertSorted(sorted, Head(files)))

\* the listing's filter, were it absent
keepAll(file) == TRUE

\* .filter(file => file !== 'custom.db')
keep(file) == file # CustomDb

\* the list branch of GET: lines 299-320
mediaFiles(st, mt, reversed) ==
  LET files    == SelectSeq(readdirSync(st, reversed), keep)
      entry(f) == [filename |-> f, type |-> getMediaTypeFromUrl(f),
                   size |-> byteLength(st[f].data), url |-> FilesUrl \o f,
                   modifiedAt |-> mt[f]]
  IN sortByModified([i \in 1..Len(files) |-> entry(files[i])], <<>>)

NoMediaRequest == [action |-> Undefined, type |-> Undefined]

NoMediaResponse ==
  [status |-> 0, success |-> FALSE, kind |-> "none", files |-> <<>>, totalFiles |-> 0,
   message |-> Undefined, error |-> Undefined]

\* the values of the `action` and `type` query parameters
ActionParams == {Undefined, <<"download">>, <<"list">>}
TypeParams == {Undefined, <<"all">>, <<"images">>, <<"audio">>, <<"videos">>, <<"documents">>}

\* GET of real-media/route.ts: the store and modification times it leaves and
\* the response it gives
mediaGET(st, mt, action, type, timestamp, noise, fault, reversed) ==
  IF action = <<"download">>
  THEN LET result == generateSampleFiles(orElse(type, <<"all">>), st, mt, timestamp, noise, fault)
       IN [store |-> result.store, mtime |-> result.mtime,
           response |->
             IF result.success
             THEN [NoMediaResponse EXCEPT
                     !.status = 200, !.success = TRUE, !.kind = "generated",
                     !.files = result.files,
                     !.message = <<"Generated ">> \o numToString(Len(result.files))
                                   \o <<" files">>]
             ELSE [NoMediaResponse EXCEPT
                     !.status = 500, !.kind = "error", !.error = ErrorMessage]]
  ELSE IF st[DotName].kind # "dir"
  THEN [store |-> st, mtime |-> mt,
        response |-> [NoMediaResponse EXCEPT
                        !.status = 500, !.kind = "error",
                        !.error = <<"Failed to process real media files">>]]
  ELSE LET listed == mediaFiles(st, mt, reversed)
       IN [store |-> st, mtime |-> mt,
           response |-> [NoMediaResponse EXCEPT
                           !.status = 200, !.success = TRUE, !.kind = "listing",
                           !.files = listed, !.totalFiles = Len(listed)]]

(***************************************************************************)
(* POST of the YouTube downloader (unnamed/part_001)                       *)
(***************************************************************************)
\* URLs are sequences of characters in which the texts the patterns look for
\* are single items
WatchPrefixes == {"youtube.com/watch?v=", "youtu.be/", "youtube.com/embed/"}
VParams == {"?v=", "&v="}

\* what [^&\n?#] does not match
stops(c) == c \in {"&", "\n", "?", "#", "youtube.com/watch?v=", "?v=", "&v=", "?list="}

\* the longest run of [^&\n?#] that begins at position i
RECURSIVE capture(_, _)
capture(url, i) ==
  IF i > Len(url) \/ stops(url[i]) THEN <<>> ELSE <<url[i]>> \o capture(url, i + 1)

\* url.match of the first pattern: the leftmost prefix followed by an id
matchWatch(url) ==
  LET hits == {i \in 1..Len(url) : url[i] \in WatchPrefixes /\ capture(url, i + 1) # <<>>}
  IN IF hits = {} THEN Undefined
     ELSE capture(url, (CHOOSE i \in hits : \A j \in hits : i <= j) + 1)

\* url.match of the second pattern: youtube.com/, anything on the same line,
\* then the last [?&]v= that an id follows
matchVParam(url) ==
  LET hits == {j \in 1..Len(url) :
                 /\ url[j] \in VParams
                 /\ capture(url, j + 1) # <<>>
                 /\ \E i \in 1..(j - 1) :
                      /\ url[i] = "youtube.com/"
                      /\ \A k \in (i + 1)..(j - 1) : url[k] # "\n"}
  IN IF hits = {} THEN Undefined
     ELSE capture(url, (CHOOSE j \in hits : \A k \in hits : k <= j) + 1)

\* extractVideoId: null is Undefined
extractVideoId(url) ==
  IF matchWatch(url) # Undefined THEN matchWatch(url) ELSE matchVParam(url)

ShortUrl == <<"https://", "youtu.be/", "a">>
PlaylistUrl == <<"https://", "www.", "youtube.com/", "playlist", "?list=", "x", "&v=", "a">>
OtherUrl == <<"https://", "example.com/", "a">>

Quality720 == <<"7","2","0","p">>

\* the bodies sent to the downloader
YtBodies ==
  {[kind |-> "invalid", url |-> JsUndefined, action |-> JsUndefined, quality |-> JsUndefined],
   [kind |-> "null", url |-> JsUndefined, action |-> JsUndefined, quality |-> JsUndefined]}
  \cup {[kind |-> "object", url |-> JsString(ShortUrl), action |-> a, quality |-> q] :
          a \in {JsUndefined, JsString(<<"info">>), JsString(<<"download">>)},
          q \in {JsUndefined, JsString(Quality720)}}
  \cup {[kind |-> "object", url |-> u, action |-> JsString(<<"download">>),
         quality |-> JsString(Quality720)] :
          u \in {JsUndefined, JsString(<<>>), JsNumber(5), JsString(PlaylistUrl),
                 JsString(OtherUrl)}}

NoYtBody == [kind |-> "none", url |-> JsUndefined, action |-> JsUndefined, quality |-> JsUndefined]

NoYtResponse ==
  [status |-> 0, success |-> FALSE, kind |-> "none", error |-> Undefined,
   videoId |-> Undefined, filename |-> Undefined, size |-> 0]

ytError(status, text) == [NoYtResponse EXCEPT !.status = status, !.kind = "error", !.error = text]

\* `youtube_${videoId}_${quality}_${timestamp}.mp4`
videoName(videoId, quality, timestamp) ==
  <<"y","o","u","t","u","b","e","_">> \o videoId \o <<"_">> \o quality.s \o <<"_">>
    \o numToString(timestamp) \o <<".","m","p","4">>

\* downloadYouTubeVideo: the store and modification times it leaves and its
\* result
downloadYouTubeVideo(st, mt, videoId, quality, timestamp, w) ==
  LET filename    == videoName(videoId, quality, timestamp)
      videoBytes  == videoBuffer(IF quality.t = "string" THEN quality.s ELSE Undefined,
                                 timestamp)
      filePath    == pathJoin(filename)
  IN [store |-> writeFileSync(st, filePath, videoBytes, w),
      mtime |-> touch(mt, filePath, timestamp, w),
      success |-> w = "ok", filename |-> filename, size |-> byteLength(videoBytes)]

\* POST of part_001: the store and modification times it leaves, whether it
\* read the clock to mint a filename, and the response it gives; zaiOk tells whether the lookup behind action 'info'
\* succeeded
ytPOST(st, mt, body, timestamp, w, zaiOk) ==
  IF body.kind # "object"
  THEN [store |-> st, mtime |-> mt, minted |-> FALSE, response |-> ytError(500, <<"Internal server error">>)]
  ELSE IF ~body.url.truthy
  THEN [store |-> st, mtime |-> mt, minted |-> FALSE, response |-> ytError(400, <<"YouTube URL is required">>)]
  ELSE IF body.url.t # "string"
  THEN [store |-> st, mtime |-> mt, minted |-> FALSE, response |-> ytError(500, <<"Internal server error">>)]
  ELSE LET videoId == extractVideoId(body.url.s) IN
  IF videoId = Undefined
  THEN [store |-> st, mtime |-> mt, minted |-> FALSE, response |-> ytError(400, <<"Invalid YouTube URL">>)]
  ELSE IF body.action = JsString(<<"info">>)
  THEN [store |-> st, mtime |-> mt, minted |-> FALSE,
        response |-> IF zaiOk
                     THEN [NoYtResponse EXCEPT !.status = 200, !.success = TRUE,
                                               !.kind = "info", !.videoId = videoId]
                     ELSE ytError(404, <<"Failed to fetch video information">>)]
  ELSE IF body.action = JsString(<<"download">>) /\ body.quality.truthy
  THEN LET downloadResult == downloadYouTubeVideo(st, mt, videoId, body.quality, timestamp, w)
       IN [store |-> downloadResult.store, mtime |-> downloadResult.mtime, minted |-> TRUE,
           response |-> IF downloadResult.success
                        THEN [NoYtResponse EXCEPT
                                !.status = 200, !.success = TRUE, !.kind = "download",
                                !.videoId = videoId, !.filename = downloadResult.filename,
                                !.size = downloadResult.size]
                        ELSE ytError(500, ErrorMessage)]
  ELSE [store |-> st, mtime |-> mt, minted |-> FALSE, response |-> ytError(400, <<"Invalid action">>)]

(***************************************************************************)
(* POST /download (download/route.ts)                                      *)
(***************************************************************************)
\* A URL is its scheme with "://", as one item, followed by characters.
Schemes == {"https://", "http://"}

\* the first position from i on that holds one of the characters cs, or the
\* position after the end
RECURSIVE firstOf(_, _, _)
firstOf(s, cs, i) ==
  IF i > Len(s) \/ s[i] \in cs THEN i ELSE firstOf(s, cs, i + 1)

\* new URL(text): whether it parses, and the parts the handler reads
parseUrl(text) ==
  IF text = <<>> \/ text[1] \notin Schemes
  THEN [ok |-> FALSE, hostname |-> <<>>, pathname |-> <<>>, search |-> <<>>]
  ELSE LET rest    == Tail(text)
           hostEnd == firstOf(rest, {"/", "?", "#"}, 1)
           pathEnd == firstOf(rest, {"?", "#"}, hostEnd)
           endAll  == firstOf(rest, {"#"}, pathEnd)
       IN IF hostEnd = 1
          THEN [ok |-> FALSE, hostname |-> <<>>, pathname |-> <<>>, search |-> <<>>]
          ELSE [ok |-> TRUE,
                hostname |-> toLowerCase(SubSeq(rest, 1, hostEnd - 1)),
                pathname |-> IF pathEnd = hostEnd THEN <<"/">>
                             ELSE SubSeq(rest, hostEnd, pathEnd - 1),
                search |-> SubSeq(rest, pathEnd + 1, endAll - 1)]

\* urlObj.hostname.includes(d)
hostnameIncludes(hostname, d) == includes(hostname, d)

YoutubeCom == <<"y","o","u","t","u","b","e",".","c","o","m">>
YoutuBe == <<"y","o","u","t","u",".","b","e">>
TiktokCom == <<"t","i","k","t","o","k",".","c","o","m">>
DouyinCom == <<"d","o","u","y","i","n",".","c","o","m">>
InstagramCom == <<"i","n","s","t","a","g","r","a","m",".","c","o","m">>
InstagrAm == <<"i","n","s","t","a","g","r",".","a","m">>

validPlatforms == {<<"youtube">>, <<"tiktok">>, <<"instagram">>}

\* isValidUrl of download/route.ts
isValidUrl(testUrl, testPlatform) ==
  LET urlObj == parseUrl(testUrl)
  IN /\ urlObj.ok
     /\ CASE testPlatform = <<"youtube">> ->
               hostnameIncludes(urlObj.hostname, YoutubeCom)
               \/ hostnameIncludes(urlObj.hostname, YoutuBe)
          [] testPlatform = <<"tiktok">> ->
               hostnameIncludes(urlObj.hostname, TiktokCom)
               \/ hostnameIncludes(urlObj.hostname, DouyinCom)
          [] testPlatform = <<"instagram">> ->
               hostnameIncludes(urlObj.hostname, InstagramCom)
               \/ hostnameIncludes(urlObj.hostname, InstagrAm)
          [] OTHER -> FALSE

Unknown == <<"u","n","k","n","o","w","n">>

\* urlObj.searchParams.get(name): Undefined when the parameter is absent
searchParam(search, name) ==
  LET pairs == splitOn(search, "&")
      key(p) == SubSeq(p, 1, firstOf(p, {"="}, 1) - 1)
      hits  == {i \in 1..Len(pairs) : key(pairs[i]) = name}
  IN IF search = <<>> \/ hits = {} THEN Undefined
     ELSE LET p == pairs[CHOOSE i \in hits : \A j \in hits : i <= j]
          IN SubSeq(p, firstOf(p, {"="}, 1) + 1, Len(p))

\* getContentId of download/route.ts, for a url that isValidUrl accepted
getContentId(inputUrl, inputPlatform) ==
  LET urlObj   == parseUrl(inputUrl)
      parts    == splitOn(urlObj.pathname, "/")
  IN CASE inputPlatform = <<"youtube">> ->
            IF hostnameIncludes(urlObj.hostname, YoutuBe)
            THEN SubSeq(urlObj.pathname, 2, Len(urlObj.pathname))
            ELSE orElse(searchParam(urlObj.search, <<"v">>), Unknown)
       [] inputPlatform = <<"tiktok">> -> orElse(parts[Len(parts)], Unknown)
       [] inputPlatform = <<"instagram">> ->
            IF Len(parts) < 2 THEN Unknown ELSE orElse(parts[Len(parts) - 1], Unknown)
       [] OTHER -> Unknown

Mp4 == <<"M","P","4">>
Mp3 == <<"M","P","3">>
Jpg == <<"J","P","G">>

\* the download options fabricated for a platform
downloadOptions(platform) ==
  CASE platform = <<"youtube">> ->
         << [id |-> <<"1080p">>, format |-> Mp4], [id |-> <<"720p">>, format |-> Mp4],
            [id |-> <<"360p">>, format |-> Mp4], [id |-> <<"audio">>, format |-> Mp3] >>
    [] platform = <<"tiktok">> ->
         << [id |-> <<"hd">>, format |-> Mp4], [id |-> <<"sd">>, format |-> Mp4],
            [id |-> <<"audio">>, format |-> Mp3] >>
    [] platform = <<"instagram">> ->
         << [id |-> <<"photo">>, format |-> Jpg], [id |-> <<"video">>, format |-> Mp4],
            [id |-> <<"story">>, format |-> Mp4], [id |-> <<"reel">>, format |-> Mp4] >>
    [] OTHER -> <<>>

OptionSlots ==
  CHOOSE n \in {Len(downloadOptions(p)) : p \in validPlatforms} :
    \A p \in validPlatforms : Len(downloadOptions(p)) <= n

NoDownloadBody == [kind |-> "none", url |-> JsUndefined, platform |-> JsUndefined]

NoDownloadResponse ==
  [status |-> 0, success |-> FALSE, error |-> Undefined, platform |-> Undefined,
   contentId |-> Undefined, downloadId |-> Undefined, downloads |-> <<>>]

downloadError(status, text) == [NoDownloadResponse EXCEPT !.status = status, !.error = text]

\* POST of download/route.ts; `now` is Date.now() and available[i] tells
\* whether Math.random() > 0.1 held for option i. The popularity counters
\* and the summary statistics of the response are left out.
downloadPOST(body, now, available) ==
  IF body.kind # "object"
  THEN downloadError(500, <<"Failed to process download request">>)
  ELSE IF ~body.url.truthy \/ ~body.platform.truthy
  THEN downloadError(400, <<"URL and platform are required">>)
  ELSE IF body.platform.t # "string" \/ body.platform.s \notin validPlatforms
  THEN downloadError(400, <<"Invalid platform. Supported platforms: youtube, tiktok, instagram">>)
  ELSE IF ~isValidUrl(body.url.s, body.platform.s)
  THEN downloadError(400, <<"Invalid ">> \o body.platform.s \o <<" URL format">>)
  ELSE LET platform   == body.platform.s
           contentId  == getContentId(body.url.s, platform)
           downloadId == numToString(now)
           options    == downloadOptions(platform)
       IN [NoDownloadResponse EXCEPT
             !.status = 200, !.success = TRUE, !.platform = platform,
             !.contentId = contentId, !.downloadId = downloadId,
             !.downloads =
               [i \in 1..Len(options) |->
                  [id |-> options[i].id, format |-> options[i].format,
                   downloadId |-> downloadId \o <<"_">> \o options[i].id,
                   filename |-> platform \o <<"_">> \o contentId \o <<"_">> \o options[i].id
                                  \o <<".">> \o toLowerCase(options[i].format),
                   available |-> available[i]]]]

\* the urls sent to POST /download: pages of the three platforms, a host that
\* merely begins with an allow-listed name, an allow-listed name in the path
\* only, an unrelated host, an upper-case host, and a text with no scheme
WatchPage ==
  <<"https://">> \o <<"w","w","w",".","y","o","u","t","u","b","e",".","c","o","m","/","w","a","t","c","h","?","v","=","a","b","c">>
ShortLink ==
  <<"https://">> \o <<"y","o","u","t","u",".","b","e","/","a","b","c">>
TiktokPage ==
  <<"https://">> \o <<"w","w","w",".","t","i","k","t","o","k",".","c","o","m","/","@","u","/","v","i","d","e","o","/","1","2","3">>
InstagramPage ==
  <<"https://">> \o <<"w","w","w",".","i","n","s","t","a","g","r","a","m",".","c","o","m","/","p","/","x","y","z","/">>
ImpostorPage ==
  <<"https://">> \o <<"y","o","u","t","u","b","e",".","c","o","m",".","e","v","i","l",".","e","x","a","m","p","l","e","/","w","a","t","c","h","?","v","=","a","b","c">>
PathOnlyPage ==
  <<"https://">> \o <<"e","v","i","l",".","e","x","a","m","p","l","e","/","y","o","u","t","u","b","e",".","c","o","m">>
ExamplePage ==
  <<"https://">> \o <<"e","x","a","m","p","l","e",".","o","r","g","/">>
UpperCasePage ==
  <<"https://">> \o <<"Y","o","u","T","u","b","e",".","c","o","m","/","w","a","t","c","h","?","v","=","a","b","c">>
NoSchemeText == <<"w","w","w",".","y","o","u","t","u","b","e",".","c","o","m">>

DownloadUrls ==
  {WatchPage, ShortLink, TiktokPage, InstagramPage, ImpostorPage, PathOnlyPage, ExamplePage,
   UpperCasePage, NoSchemeText}

DownloadBodies ==
  {[kind |-> "invalid", url |-> JsUndefined, platform |-> JsUndefined],
   [kind |-> "null", url |-> JsUndefined, platform |-> JsUndefined]}
  \cup {[kind |-> "object", url |-> u, platform |-> p] :
          u \in {JsUndefined, JsString(<<>>), JsNumber(5)} \cup {JsString(t) : t \in DownloadUrls},
          p \in {JsUndefined, JsNumber(1), JsString(<<"facebook">>), JsString(<<"YouTube">>)}
                \cup {JsString(t) : t \in validPlatforms}}

(***************************************************************************)
(* The messaging server: socket.ts, socket.js                              *)
(***************************************************************************)
\* `io` while it is null; a constructed server is known by its position in
\* the order of construction
NoIo == 0

\* the HTTP servers a caller can hand to initSocket
HttpServers == {"http1", "http2"}

\* the calls of initSocket and getIO followed in one process
MaxCalls == 4

\* new SocketIOServer(server, {path, cors}), before any handler is registered
SocketIOServer(server) ==
  [server |-> server, path |-> "/socket.io", origin |-> "*", connection |-> 0]

\* io.on("connection", ...): one more connection handler on the server
onConnection(made, n) == [made EXCEPT ![n].connection = @ + 1]

\* initSocket constructing whatever `io` holds
initSocketUnguarded(i, made, server) ==
  LET n == Len(made) + 1
  IN [io |-> n, servers |-> onConnection(Append(made, SocketIOServer(server)), n),
      threw |-> FALSE, returned |-> n]

\* initSocket(server) with `io` = i and `made` the servers constructed so far
initSocket(i, made, server) ==
  IF i # NoIo
  THEN [io |-> i, servers |-> made, threw |-> FALSE, returned |-> i]
  ELSE LET n == Len(made) + 1
       IN [io |-> n, servers |-> onConnection(Append(made, SocketIOServer(server)), n),
           threw |-> FALSE, returned |-> n]

\* getIO() with `io` = i
getIO(i) ==
  IF i = NoIo THEN [threw |-> TRUE, returned |-> NoIo]
  ELSE [threw |-> FALSE, returned |-> i]

(***************************************************************************)
(* The page: page.tsx                                                      *)
(***************************************************************************)
\* the handler runs that send a request, followed in one visit of the page
MaxRequests == 3

\* the milliseconds Date.now() goes through in the browser during the visit
MaxPageTime == 2

\* handleDownload's detection of the platform; "none" where it alerts
detectPlatform(url) ==
  IF includes(url, <<"y","o","u","t","u","b","e",".","c","o","m">>) \/ includes(url, <<"y","o","u","t","u",".","b","e">>)
  THEN "youtube"
  ELSE IF includes(url, <<"t","i","k","t","o","k",".","c","o","m">>) THEN "tiktok"
  ELSE IF includes(url, <<"i","n","s","t","a","g","r","a","m",".","c","o","m">>) THEN "instagram"
  ELSE "none"

\* the item handleDownload adds; `request` tells which run of the handler made
\* it and is no field of the code's item
downloadItem(url, platform, now, n) ==
  [id |-> numToString(now), platform |-> platform, url |-> url, status |-> "processing",
   request |-> n]

\* prev.map(item => item.id === downloadItem.id ? {...item, status} : item)
settleItem(prev, id, status) ==
  [i \in 1..Len(prev) |-> IF prev[i].id = id THEN [prev[i] EXCEPT !.status = status]
                          ELSE prev[i]]

\* how a fetch followed by response.json() can end: a parsed answer with an ok
\* status, or a rejection, a status that is not ok, a body that does not parse
FetchOutcomes == {"ok", "failed"}

AnswerText == <<"[data.response]">>
SorryText == <<"Sorry, I encountered an error. Please try again.">>

\* the message handleSendMessage adds when it is called
userMessage(content, now, n) ==
  [id |-> numToString(now), role |-> "user", content |-> content, request |-> n]

\* the message it adds when its request has settled
assistantMessage(outcome, now, n) ==
  [id |-> numToString(now + 1), role |-> "assistant",
   content |-> IF outcome = "ok" THEN AnswerText ELSE SorryText, request |-> n]

\* what is typed into the two inputs
TypedUrls == {ShortLink, TiktokPage, ExamplePage, <<" ">>}
TypedMessages == {<<"h","i">>, <<"y","o">>, <<" ">>}

(***************************************************************************)
(* State                                                                   *)
(***************************************************************************)
VARIABLES
  chatRoute,      \* the version of the chat route that is deployed
  env,            \* process.env
  pc,             \* where the chat request in progress stands
  body,           \* the body of the chat request
  message,        \* POST's `message`
  methods,        \* searchWithFallback's list of producers
  idx,            \* position of the loop in methods
  started,        \* producers invoked for this request, in order
  finished,       \* how each invoked producer ended: "throw", "empty", "results"
  values,         \* what each invoked producer resolved to (<<>> if it threw)
  searchResults,  \* POST's `searchResults`
  aiCalls,        \* AI completion calls made for this request
  ai,             \* how the AI completion call ended
  raised,         \* where the error that reached POST's catch came from
  response,       \* the response of the chat request
  filesRoute,     \* the version of the files route that is deployed
  store,          \* the db/ directory: what each name holds
  fileRequest,    \* the filename parameter of the latest GET /files
  fileResponse,   \* the response to the latest GET /files
  fileEffects,    \* whether the latest GET /files generated and wrote
  synthesized,    \* per path, the bytes GET /files returned when it synthesized it
  mtime,          \* per path, the modification time fs.statSync reports
  clock,          \* Date.now() in milliseconds
  mediaRequest,   \* the parameters of the latest GET /real-media
  mediaResponse,  \* the response to the latest GET /real-media
  ytRequest,      \* the body of the latest POST to the YouTube downloader
  ytResponse,     \* the response to the latest POST to the YouTube downloader
  call,           \* the latest call of a function or stateless handler
  ret,            \* what that call returned
  io,             \* socket: the module's `io`
  servers,        \* the messaging servers constructed so far, in order
  socketLog,      \* the calls of initSocket and getIO made so far, in order
  pageNow,        \* page: Date.now() in the browser
  handled,        \* the handler runs that have sent a request so far
  downloadUrl,    \* page: the `downloadUrl` state
  downloads,      \* page: the `downloads` state
  downloadFetches,\* the download requests that have not settled
  currentMessage, \* page: the `currentMessage` state
  messages,       \* page: the `messages` state
  isLoading,      \* page: the `isLoading` state
  chatFetches     \* the chat requests that have not settled

chatVars == <<pc, body, message, methods, idx, started, finished, values, searchResults,
              aiCalls, ai, raised, response>>

filesVars == <<filesRoute, store, fileRequest, fileResponse, fileEffects, synthesized, mtime>>

mediaVars == <<clock, mediaRequest, mediaResponse, ytRequest, ytResponse>>

callVars == <<call, ret>>

socketVars == <<io, servers, socketLog>>

pageVars == <<pageNow, handled, downloadUrl, downloads, downloadFetches, currentMessage,
              messages, isLoading, chatFetches>>

vars == <<chatRoute, env, chatVars, filesVars, mediaVars, callVars, socketVars, pageVars>>

\* no chat request has been made
ChatIdle ==
  /\ pc = "idle"
  /\ body = [kind |-> "null", message |-> JsUndefined]
  /\ message = <<>>
  /\ methods = <<>>
  /\ idx = 1
  /\ started = <<>>
  /\ finished = <<>>
  /\ values = <<>>
  /\ searchResults = <<>>
  /\ aiCalls = 0
  /\ ai = NoAi
  /\ raised = "none"
  /\ response = NoResponse

\* no file request has been made; the files in the store were there when the
\* process started
FilesIdle ==
  /\ fileRequest = Undefined
  /\ fileResponse = NoFileResponse
  /\ fileEffects = {}
  /\ synthesized = [p \in DOMAIN store |-> NoEntry]
  /\ mtime = [p \in DOMAIN store |-> 0]

\* no request has been made to real-media or to the YouTube downloader
MediaIdle ==
  /\ clock = 1
  /\ mediaRequest = NoMediaRequest
  /\ mediaResponse = NoMediaResponse
  /\ ytRequest = NoYtBody
  /\ ytResponse = NoYtResponse

NoCall == [fn |-> "none"]

\* no function has been called
CallsIdle ==
  /\ call = NoCall
  /\ ret = NoCall

\* the socket module has just been loaded: `let io = null`, and nothing has
\* called it
SocketIdle ==
  /\ io = NoIo
  /\ servers = <<>>
  /\ socketLog = <<>>

\* the page has just been mounted: the initial values of its useState calls,
\* and no request sent
PageIdle ==
  /\ pageNow = 1
  /\ handled = 0
  /\ downloadUrl = <<>>
  /\ downloads = <<>>
  /\ downloadFetches = {}
  /\ currentMessage = <<>>
  /\ messages = <<>>
  /\ isLoading = FALSE
  /\ chatFetches = {}

\* a deployment that serves chat requests
Init ==
  /\ chatRoute \in ChatRoutes
  /\ env \in Envs
  /\ ChatIdle
  /\ filesRoute = "synth"
  /\ store \in {st \in InitialStores : \A f \in Filenames \ {DotName} : st[f] = NoEntry}
  /\ FilesIdle
  /\ MediaIdle
  /\ CallsIdle
  /\ SocketIdle
  /\ PageIdle

\* a deployment that serves file requests
InitFiles ==
  /\ chatRoute = "serper"
  /\ env = [SERPER_API_KEY |-> FALSE, ZAI_ENABLED |-> FALSE, HUGGINGFACE_API_KEY |-> FALSE]
  /\ ChatIdle
  /\ filesRoute \in FilesRoutes
  /\ store \in InitialStores
  /\ FilesIdle
  /\ MediaIdle
  /\ CallsIdle
  /\ SocketIdle
  /\ PageIdle

(***************************************************************************)
(* POST /chat                                                              *)
(***************************************************************************)
\* POST up to its first await on a producer
POST(b) ==
  /\ pc \in {"idle", "done"}
  /\ body' = b
  /\ started' = <<>>
  /\ finished' = <<>>
  /\ values' = <<>>
  /\ searchResults' = <<>>
  /\ aiCalls' = 0
  /\ ai' = NoAi
  /\ idx' = 1
  /\ LET r == validate(chatRoute, b)
     IN CASE r.ctl = "raise" ->
               /\ response' = caught(chatRoute)
               /\ raised' = "body"
               /\ pc' = "done"
               /\ message' = <<>>
               /\ methods' = <<>>
          [] r.ctl = "reject" ->
               /\ response' = BadRequest
               /\ raised' = "none"
               /\ pc' = "done"
               /\ message' = <<>>
               /\ methods' = <<>>
          [] r.ctl = "accept" ->
               /\ message' = r.message.s
               /\ methods' = registered(chatRoute, env)
               /\ response' = NoResponse
               /\ raised' = "none"
               /\ pc' = "search"
  /\ UNCHANGED <<chatRoute, env, filesVars, mediaVars, callVars, socketVars, pageVars>>

\* searchWithFallback has returned `results`: POST goes on to the AI call,
\* or answers at once when no AI provider is configured
afterSearch(results) ==
  /\ searchResults' = results
  /\ IF aiConfigured(chatRoute, env)
     THEN /\ pc' = "aiAwait"
          /\ aiCalls' = aiCalls + 1
          /\ UNCHANGED <<ai, raised, response>>
     ELSE LET f == finalResponse(chatRoute, message, results, NoAi)
          IN /\ pc' = "done"
             /\ response' = answered(f.text, results)
             /\ UNCHANGED <<aiCalls, ai, raised>>

\* the loop calls the next producer: `await method()`
Invoke ==
  /\ pc = "search"
  /\ idx <= Len(methods)
  /\ started' = Append(started, methods[idx])
  /\ pc' = "await"
  /\ UNCHANGED <<filesVars, mediaVars, callVars, socketVars, pageVars, chatRoute, env, body, message, methods, idx, finished, values,
                 searchResults, aiCalls, ai, raised, response>>

\* the producer in flight settles
Settle ==
  /\ pc = "await"
  /\ \E out \in outcomes(methods[idx]) :
       LET results == IF out.threw THEN <<>>
                      ELSE produced(chatRoute, methods[idx], message, out.raw)
           step == loopStep(chatRoute, out, results)
       IN /\ finished' = Append(finished,
                           IF out.threw THEN "throw"
                           ELSE IF Len(results) = 0 THEN "empty" ELSE "results")
          /\ values' = Append(values, results)
          /\ CASE step = "return" ->
                    /\ afterSearch(results)
                    /\ UNCHANGED idx
               [] step = "continue" ->
                    /\ idx' = idx + 1
                    /\ pc' = "search"
                    /\ UNCHANGED <<searchResults, aiCalls, ai, raised, response>>
               [] step = "raise" ->
                    /\ response' = caught(chatRoute)
                    /\ raised' = "search"
                    /\ pc' = "done"
                    /\ UNCHANGED <<idx, searchResults, aiCalls, ai>>
  /\ UNCHANGED <<filesVars, mediaVars, callVars, socketVars, pageVars, chatRoute, env, body, message, methods, started>>

\* exhausted, were the local placeholder returned instead of []
exhaustedPlaceholder(v, query) == localResults(v, query)

\* the value of searchWithFallback when the loop has run out of producers
exhausted(v, query) == <<>>

\* every producer has failed: `return []`
Exhausted ==
  /\ pc = "search"
  /\ idx > Len(methods)
  /\ afterSearch(exhausted(chatRoute, message))
  /\ UNCHANGED <<filesVars, mediaVars, callVars, socketVars, pageVars, chatRoute, env, body, message, methods, idx, started, finished, values>>

\* the AI completion call settles and POST answers
AiSettle ==
  /\ pc = "aiAwait"
  /\ \E out \in AiOutcomes :
       LET f == finalResponse(chatRoute, message, searchResults, out)
       IN /\ ai' = out
          /\ IF f.ctl = "raise"
             THEN response' = caught(chatRoute) /\ raised' = "ai"
             ELSE response' = answered(f.text, searchResults) /\ raised' = "none"
  /\ pc' = "done"
  /\ UNCHANGED <<filesVars, mediaVars, callVars, socketVars, pageVars, chatRoute, env, body, message, methods, idx, started, finished, values,
                 searchResults, aiCalls>>

Next ==
  \/ \E b \in Bodies : POST(b)
  \/ Invoke
  \/ Settle
  \/ Exhausted
  \/ AiSettle

Spec == Init /\ [][Next]_vars

(***************************************************************************)
(* GET /files                                                              *)
(***************************************************************************)
\* the handler has no await: a request is one step. Only the latest request
\* and its response are kept.
FilesGET(filename) ==
  \E w \in WriteOutcomes, now \in Times, noise \in Noises :
    LET r == GET(filesRoute, store, filename, w, now, noise)
    IN /\ fileRequest' = filename
       /\ store' = r.store
       /\ fileResponse' = r.response
       /\ fileEffects' = r.effects
       /\ synthesized' = IF "generate" \in r.effects /\ r.response.status = 200
                         THEN [synthesized EXCEPT
                                 ![pathJoin(filename)] = FileEntry(r.response.body)]
                         ELSE synthesized
       /\ mtime' = [p \in DOMAIN mtime |-> IF r.store[p] # store[p] THEN clock ELSE mtime[p]]
       /\ mediaRequest' = NoMediaRequest
       /\ mediaResponse' = NoMediaResponse
       /\ ytRequest' = NoYtBody
       /\ ytResponse' = NoYtResponse
       /\ UNCHANGED <<filesRoute, clock, chatRoute, env, chatVars, callVars, socketVars, pageVars>>

NextFiles == \E filename \in FilenameParams : FilesGET(filename)

SpecFiles == InitFiles /\ [][NextFiles]_vars

(***************************************************************************)
(* The store and its writers                                               *)
(***************************************************************************)
\* the name the downloader mints for video "a" in 720p at clock 1
FutureName == <<"y","o","u","t","u","b","e","_","a","_","7","2","0","p","_","1",".","m","p","4">>

\* a file that was in the store when the process started
OldFile == <<"a",".","m","p","4">>

\* the filenames GET /files is asked for while the other writers are at work
StoreRequests == {Undefined, FutureName, OldFile}

\* the names the sample batches and the downloader can mint
MintedNames ==
  {sampleFiles(<<"all">>, t, 0)[i].name : i \in 1..BatchWrites, t \in Clocks}
  \cup {videoName(<<"a">>, JsString(Quality720), t) : t \in Clocks}

StorePaths == {DotName, CustomDb, OldFile, FutureName} \cup MintedNames

\* a deployment in which no request is being served and nothing is stored
\* but the paths of `present`
Quiet(paths, present) ==
  /\ chatRoute = "serper"
  /\ env = [SERPER_API_KEY |-> FALSE, ZAI_ENABLED |-> FALSE, HUGGINGFACE_API_KEY |-> FALSE]
  /\ ChatIdle
  /\ store = [p \in paths |-> IF p = DotName THEN DirEntry
                              ELSE IF p \in present THEN FileEntry(RawBuffer) ELSE NoEntry]
  /\ FilesIdle
  /\ MediaIdle
  /\ ret = NoCall
  /\ SocketIdle
  /\ PageIdle

\* a deployment whose store holds the database file and one old file
InitStore ==
  /\ filesRoute = "synth"
  /\ Quiet(StorePaths, {CustomDb, OldFile})
  /\ call = NoCall

\* GET /real-media: the handler has no await that yields before it is done.
\* A request that generates reads the clock, and the clock has moved on when
\* it is over.
MediaGET(action, type) ==
  LET generates == action = <<"download">>
      writes    == Len(sampleFiles(orElse(type, <<"all">>), clock, 0))
  IN /\ generates => clock \in Clocks
     /\ \E noise \in IF generates THEN Noises ELSE {0},
           fault \in IF generates THEN {f \in Faults : f.at <= writes}
                     ELSE {[w |-> "ok", at |-> 0]},
           reversed \in IF generates THEN {FALSE} ELSE BOOLEAN :
          LET r == mediaGET(store, mtime, action, type, clock, noise, fault, reversed)
          IN /\ store' = r.store
             /\ mtime' = r.mtime
             /\ mediaRequest' = [action |-> action, type |-> type]
             /\ mediaResponse' = r.response
     /\ clock' = IF generates THEN clock + 1 ELSE clock
     /\ fileRequest' = Undefined
     /\ fileResponse' = NoFileResponse
     /\ fileEffects' = {}
     /\ ytRequest' = NoYtBody
     /\ ytResponse' = NoYtResponse
     /\ UNCHANGED <<filesRoute, synthesized, chatRoute, env, chatVars, callVars, socketVars, pageVars>>

\* POST to the YouTube downloader. The outcome of the write matters to a
\* request that downloads, the outcome of the lookup to one that asks for
\* information.
YtPOST(b) ==
  LET plain == ytPOST(store, mtime, b, clock, "ok", TRUE)
  IN /\ plain.minted => clock \in Clocks
     /\ \E w \in IF plain.minted THEN WriteOutcomes ELSE {"ok"},
           zaiOk \in IF plain.response.kind = "info" THEN BOOLEAN ELSE {TRUE} :
          LET r == ytPOST(store, mtime, b, clock, w, zaiOk)
          IN /\ store' = r.store
             /\ mtime' = r.mtime
             /\ ytResponse' = r.response
     /\ clock' = IF plain.minted THEN clock + 1 ELSE clock
     /\ ytRequest' = b
     /\ fileRequest' = Undefined
     /\ fileResponse' = NoFileResponse
     /\ fileEffects' = {}
     /\ mediaRequest' = NoMediaRequest
     /\ mediaResponse' = NoMediaResponse
     /\ UNCHANGED <<filesRoute, synthesized, chatRoute, env, chatVars, callVars, socketVars, pageVars>>

\* a millisecond passes
Tick ==
  /\ clock \in Clocks
  /\ clock' = clock + 1
  /\ UNCHANGED <<chatRoute, env, chatVars, filesVars, mediaRequest, mediaResponse,
                 ytRequest, ytResponse, callVars, socketVars, pageVars>>

\* the bodies sent to the downloader while the other writers are at work:
\* a download of video "a" in 720p, a request for information, and no body
StoreBodies ==
  {b \in YtBodies :
     \/ b.kind = "invalid"
     \/ b.url = JsString(ShortUrl) /\ b.quality = JsString(Quality720) /\ b.action # JsUndefined}

NextStore ==
  \/ \E filename \in StoreRequests : FilesGET(filename)
  \/ \E action \in ActionParams : MediaGET(action, <<"audio">>)
  \/ \E b \in StoreBodies : YtPOST(b)
  \/ Tick

\* every route that reads or writes the store
SpecStore == InitStore /\ [][NextStore]_vars

\* the downloader, sent every body, and the route its download links point to
NextYt ==
  \/ \E b \in YtBodies : YtPOST(b)
  \/ \E filename \in StoreRequests : FilesGET(filename)
  \/ Tick

SpecYt == InitStore /\ [][NextYt]_vars

\* the names the read paths meet: an old file, one synthesized on demand,
\* the audio samples of a batch
ReadsPaths ==
  {DotName, CustomDb, OldFile, FutureName}
  \cup {sampleFiles(<<"audio">>, t, 0)[i].name : i \in 1..2, t \in Clocks}

\* either files route, serving a store that real-media fills and lists
InitReads ==
  /\ filesRoute \in FilesRoutes
  /\ Quiet(ReadsPaths, {CustomDb, OldFile})
  /\ call = NoCall

NextReads ==
  \/ \E filename \in {Undefined, FutureName} : FilesGET(filename)
  \/ \E action \in ActionParams : MediaGET(action, <<"audio">>)

SpecReads == InitReads /\ [][NextReads]_vars

\* the handler reads `type` only when the action is 'download'
NextMedia ==
  \/ \E type \in TypeParams : MediaGET(<<"download">>, type)
  \/ \E action \in ActionParams \ {<<"download">>} : MediaGET(action, Undefined)
  \/ Tick

\* GET /real-media alone
SpecMedia == InitStore /\ [][NextMedia]_vars

(***************************************************************************)
(* GET /files with filenames that leave the store directory                *)
(***************************************************************************)
SecretPath == <<".",".","/","s","e","c","r","e","t",".","t","x","t">>
OutsideVideo == <<".",".","/","y","o","u","t","u","b","e","_","b",".","m","p","4">>
InsideVideo == <<"y","o","u","t","u","b","e","_","a",".","m","p","4">>

\* filenames with parent-directory segments, and one without
TraversalParams ==
  { SecretPath, OutsideVideo, InsideVideo,
    <<"x","/",".",".","/",".",".","/","s","e","c","r","e","t",".","t","x","t">>,
    <<".",".","/","n","o","n","e",".","t","x","t">> }

TraversalPaths == {DotName} \cup {pathJoin(f) : f \in TraversalParams}

\* a file lies next to the store directory, the store is empty
InitTraversal ==
  /\ filesRoute \in FilesRoutes
  /\ Quiet(TraversalPaths, {SecretPath})
  /\ call = NoCall

NextTraversal == \E filename \in TraversalParams : FilesGET(filename)

SpecTraversal == InitTraversal /\ [][NextTraversal]_vars

(***************************************************************************)
(* Functions and stateless handlers, called on their own                   *)
(***************************************************************************)
\* filenames with each extension of the mimeTypes table, with upper-case
\* extensions, with an extension outside the table, and with none
TypedNames ==
  {<<"f", ".">> \o e.extension : e \in mimeTypes}
  \cup { <<"f",".","J","P","G">>, <<"f",".","M","p","4">>, <<"f",".","W","A","V">>,
         <<"f",".","x","y","z">>, CustomDb, <<"f">> }

WhatIs == <<"W","h","a","t"," ","i","s"," ">>
HowToDo == <<"H","o","w"," ","t","o"," ","d","o"," ">>
Vs == <<" ","v","s"," ">>

\* what X and Y stand for in the queries
Subjects ==
  { <<"c","a","t","s">>,
    <<"w","h","y"," ","c","a","t","s">>,
    <<"D","e","f","i","n","e"," ","c","a","t","s">>,
    <<"h","o","w"," ","d","o"," ","c","a","t","s">>,
    <<"t","h","e"," ","r","e","a","s","o","n">>,
    <<"c","a","t","s"," ","v","s"," ","d","o","g","s">>,
    <<"d","o","g","s">> }

\* queries for the later tests of determineQueryType, some meeting two of them
IntentQueries ==
  { <<"M","o","v","i","e"," ","r","e","v","i","e","w">>,
    <<"R","E","C","E","N","T"," ","h","i","s","t","o","r","y"," ","o","f"," ","R","o","m","e">>,
    <<"L","a","t","e","s","t"," ","N","e","w","s">>,
    <<"o","r","i","g","i","n","a","l"," ","o","p","i","n","i","o","n">>,
    <<"P","r","o","s"," ","a","n","d"," ","C","o","n","s">>,
    <<"r","i","s","k"," ","o","f"," ","t","e","a">>,
    <<"c","o","m","p","a","r","e"," ","t","h","e"," ","b","e","n","e","f","i","t","s">>,
    <<"V","e","r","s","u","s">>,
    <<"d","i","s","a","d","v","a","n","t","a","g","e">> }

Queries ==
  {WhatIs \o x : x \in Subjects} \cup {HowToDo \o x : x \in Subjects}
  \cup {x \o Vs \o y : x \in Subjects, y \in Subjects}
  \cup Subjects
  \cup {<<"c","a","n","v","a","s">>, <<"p","r","o","g","r","a","m","s">>}
  \cup IntentQueries

\* the longest list of results handed to synthesizeFromSearch
MaxResults == 6

\* what the snippets of the results say after their mark: a date, a phrase
\* that is cleaned away, nothing, a percentage
SnippetTails ==
  << <<" ","i","n"," ","2","0","2","0">>, <<" ","R","e","a","d"," ","m","o","r","e">>, <<>>, <<" ","u","p"," ","5","0","%">> >>

\* the k-th result of a search, as searchWithFallback normalises it
resultNo(k) ==
  [title |-> <<"T">> \o numToString(k), url |-> <<"u">> \o numToString(k),
   snippet |-> <<"s">> \o numToString(k) \o SnippetTails[(k % Len(SnippetTails)) + 1],
   position |-> k]

\* lists of results: the first n of a search, in its order or in the opposite
\* one, and a list whose one result has no snippet
ResultLists ==
  {[i \in 1..n |-> resultNo(i)] : n \in 0..MaxResults}
  \cup {[i \in 1..n |-> resultNo(MaxResults + 1 - i)] : n \in 1..MaxResults}
  \cup {<< [title |-> <<"T">>, url |-> <<"u">>, snippet |-> <<>>, position |-> 1] >>}

\* one query of each type
TypedQueries ==
  { <<"W","h","a","t"," ","i","s"," ","t","e","a">>,
    <<"h","o","w"," ","t","o"," ","b","r","e","w"," ","t","e","a">>,
    <<"w","h","y"," ","t","e","a">>,
    <<"t","e","a"," ","v","s"," ","c","o","f","f","e","e">>,
    <<"t","e","a"," ","r","e","v","i","e","w">>,
    <<"h","i","s","t","o","r","y"," ","o","f"," ","t","e","a">>,
    <<"t","e","a"," ","n","e","w","s">>,
    <<"b","e","n","e","f","i","t","s"," ","o","f"," ","t","e","a">>,
    <<"r","i","s","k"," ","o","f"," ","t","e","a">>,
    <<"t","e","a">> }

Quality360 == <<"3","6","0","p">>
AudioOnly == <<"A","u","d","i","o"," ","O","n","l","y">>

\* the calls made: a function's name with its arguments
Calls ==
  {[fn |-> "contentType", route |-> v, filename |-> f] : v \in FilesRoutes, f \in TypedNames}
  \cup {[fn |-> "generateRealAudioFile", filename |-> sampleFiles(<<"audio">>, t, 0)[i].name] :
          i \in 1..2, t \in Clocks}
  \cup {[fn |-> "generateYouTubeVideo", filename |-> f] : f \in {InsideVideo, FutureName}}
  \cup {[fn |-> "generateRealVideoFile", filename |-> sampleFiles(<<"videos">>, t, 0)[i].name] :
          i \in 1..2, t \in Clocks}
  \cup {[fn |-> "downloadYouTubeVideo", quality |-> q] :
          q \in {Quality720, Quality360, AudioOnly}}
  \cup {[fn |-> "mdatBox", size |-> n] : n \in PayloadSizes}
  \cup {[fn |-> "mdatPayload", size |-> n] : n \in PayloadSizes}
  \cup {[fn |-> "determineQueryType", query |-> q] : q \in Queries}
  \cup {[fn |-> "synthesizeFromSearch", query |-> q, searchResults |-> l] :
          q \in TypedQueries, l \in ResultLists}

\* one call is about to be made
InitCalls ==
  /\ filesRoute = "synth"
  /\ Quiet({DotName}, {})
  /\ call \in Calls

\* the call returns r; it touches nothing else
returns(r) ==
  /\ ret' = r
  /\ UNCHANGED <<call, chatRoute, env, chatVars, filesVars, mediaVars, socketVars, pageVars>>

\* the content type each files route sends for a name, and the one the
\* mimeTypes table gives
ContentType ==
  /\ call.fn = "contentType"
  /\ returns([fn |-> call.fn,
              served |-> contentTypeOf(call.route, toLowerCase(extname(call.filename))),
              table |-> getContentTypeFromUrl(call.filename),
              mediaType |-> getMediaTypeFromUrl(call.filename)])

RealAudio ==
  /\ call.fn = "generateRealAudioFile"
  /\ returns([fn |-> call.fn, wavHeader |-> wavHeader,
              buffer |-> generateRealAudioFile(call.filename)])

YouTubeVideo ==
  /\ call.fn = "generateYouTubeVideo"
  /\ \E now \in Times, noise \in Noises :
       returns([fn |-> call.fn, buffer |-> generateYouTubeVideo(call.filename, now, noise)])

RealVideo ==
  /\ call.fn = "generateRealVideoFile"
  /\ \E now \in Times, noise \in Noises :
       returns([fn |-> call.fn, buffer |-> generateRealVideoFile(call.filename, now, noise)])

DownloadedVideo ==
  /\ call.fn = "downloadYouTubeVideo"
  /\ \E now \in Times :
       returns([fn |-> call.fn, buffer |-> videoBuffer(call.quality, now)])

\* the mdat box of generateYouTubeVideo, filled
FillFrames ==
  /\ call.fn = "mdatBox"
  /\ \E random \in Noises :
       returns([fn |-> call.fn, header |-> MdatHeader, mdat |-> mdatBox(call.size, random)])

\* the mdat payload of downloadYouTubeVideo, filled
FillDownload ==
  /\ call.fn = "mdatPayload"
  /\ returns([fn |-> call.fn, header |-> 0, mdat |-> mdatPayload(call.size)])

QueryType ==
  /\ call.fn = "determineQueryType"
  /\ returns([fn |-> call.fn, type |-> determineQueryType(call.query)])

Synthesize ==
  /\ call.fn = "synthesizeFromSearch"
  /\ returns([fn |-> call.fn, text |-> synthesizeFromSearch(call.query, call.searchResults)])

NextCalls ==
  \/ ContentType
  \/ RealAudio
  \/ YouTubeVideo
  \/ RealVideo
  \/ DownloadedVideo
  \/ FillFrames
  \/ FillDownload
  \/ QueryType
  \/ Synthesize

SpecCalls == InitCalls /\ [][NextCalls]_vars

\* a request is about to be sent to POST /download
InitDownload ==
  /\ filesRoute = "synth"
  /\ Quiet({DotName}, {})
  /\ call \in {[fn |-> "POST /download", body |-> b] : b \in DownloadBodies}

\* POST /download: its one await is a timer, and it touches no state
DownloadPOST ==
  /\ call.fn = "POST /download"
  /\ \E now \in Times, available \in [1..OptionSlots -> BOOLEAN] :
       returns([fn |-> call.fn, response |-> downloadPOST(call.body, now, available)])

NextDownload == DownloadPOST

SpecDownload == InitDownload /\ [][NextDownload]_vars

(***************************************************************************)
(* The messaging server, called by the process that loaded it              *)
(***************************************************************************)
\* the socket module has just been loaded by a process that serves nothing yet
InitSocketModule ==
  /\ filesRoute = "synth"
  /\ Quiet({DotName}, {})
  /\ call = NoCall

\* a caller runs initSocket(server)
InitSocket(server) ==
  /\ Len(socketLog) < MaxCalls
  /\ LET r == initSocket(io, servers, server)
     IN /\ io' = r.io
        /\ servers' = r.servers
        /\ socketLog' = Append(socketLog, [fn |-> "initSocket", server |-> server,
                                           before |-> Len(servers),
                                           threw |-> r.threw, returned |-> r.returned])
  /\ UNCHANGED <<chatRoute, env, chatVars, filesVars, mediaVars, callVars, pageVars>>

\* a caller runs getIO()
GetIO ==
  /\ Len(socketLog) < MaxCalls
  /\ LET r == getIO(io)
     IN socketLog' = Append(socketLog, [fn |-> "getIO", server |-> "none",
                                        before |-> Len(servers),
                                        threw |-> r.threw, returned |-> r.returned])
  /\ UNCHANGED <<io, servers, chatRoute, env, chatVars, filesVars, mediaVars, callVars, pageVars>>

NextSocket ==
  \/ \E server \in HttpServers : InitSocket(server)
  \/ GetIO

SpecSocket == InitSocketModule /\ [][NextSocket]_vars

(***************************************************************************)
(* The page, used by a visitor                                             *)
(***************************************************************************)
\* the page has just been mounted
InitPage ==
  /\ filesRoute = "synth"
  /\ Quiet({DotName}, {})
  /\ call = NoCall

serverVars == <<chatRoute, env, chatVars, filesVars, mediaVars, callVars, socketVars>>

downloadTab == <<downloadUrl, downloads, downloadFetches>>
chatTab == <<currentMessage, messages, isLoading, chatFetches>>

\* a millisecond passes in the browser
PageTick ==
  /\ pageNow < MaxPageTime
  /\ pageNow' = pageNow + 1
  /\ UNCHANGED <<serverVars, handled, downloadTab, chatTab>>

\* the visitor edits the URL input
TypeUrl(text) ==
  /\ downloadUrl' = text
  /\ UNCHANGED <<serverVars, pageNow, handled, downloads, downloadFetches, chatTab>>

\* handleDownload up to its await; the Download button is disabled while the
\* input is blank
HandleDownload ==
  /\ handled < MaxRequests
  /\ trim(downloadUrl) # <<>>
  /\ LET platform == detectPlatform(downloadUrl)
     IN IF platform = "none"
        THEN UNCHANGED <<handled, downloadTab>>
        ELSE LET n    == handled + 1
                 item == downloadItem(downloadUrl, platform, pageNow, n)
             IN /\ handled' = n
                /\ downloads' = Append(downloads, item)
                /\ downloadUrl' = <<>>
                /\ downloadFetches' = downloadFetches \cup {[request |-> n, id |-> item.id]}
  /\ UNCHANGED <<serverVars, pageNow, chatTab>>

\* handleDownload from its await on: the request f settles
SettleDownload(f, outcome) ==
  /\ f \in downloadFetches
  /\ downloadFetches' = downloadFetches \ {f}
  /\ downloads' = settleItem(downloads, f.id, IF outcome = "ok" THEN "completed" ELSE "error")
  /\ UNCHANGED <<serverVars, pageNow, handled, downloadUrl, chatTab>>

\* handleClearDownloads; its button is rendered while the list has items
HandleClearDownloads ==
  /\ Len(downloads) > 0
  /\ downloads' = <<>>
  /\ UNCHANGED <<serverVars, pageNow, handled, downloadUrl, downloadFetches, chatTab>>

NextDownloads ==
  \/ PageTick
  \/ \E text \in TypedUrls : TypeUrl(text)
  \/ HandleDownload
  \/ \E f \in downloadFetches, outcome \in FetchOutcomes : SettleDownload(f, outcome)
  \/ HandleClearDownloads

\* the downloader tab of the page
SpecDownloads == InitPage /\ [][NextDownloads]_vars

\* the visitor edits the message box
TypeMessage(text) ==
  /\ currentMessage' = text
  /\ UNCHANGED <<serverVars, pageNow, handled, downloadTab, messages, isLoading, chatFetches>>

\* handleSendMessage up to its await, called by the Send button, which is
\* disabled while isLoading or while the box is blank, or by the Enter key
\* of the message box
HandleSendMessage(by) ==
  /\ handled < MaxRequests
  /\ by = "button" => ~isLoading /\ trim(currentMessage) # <<>>
  /\ IF trim(currentMessage) = <<>>
     THEN UNCHANGED <<handled, chatTab>>
     ELSE LET n == handled + 1
          IN /\ handled' = n
             /\ messages' = Append(messages, userMessage(currentMessage, pageNow, n))
             /\ currentMessage' = <<>>
             /\ isLoading' = TRUE
             /\ chatFetches' = chatFetches \cup {[request |-> n]}
  /\ UNCHANGED <<serverVars, pageNow, downloadTab>>

\* handleSendMessage from its await on: the request f settles
SettleChat(f, outcome) ==
  /\ f \in chatFetches
  /\ chatFetches' = chatFetches \ {f}
  /\ messages' = Append(messages, assistantMessage(outcome, pageNow, f.request))
  /\ isLoading' = FALSE
  /\ UNCHANGED <<serverVars, pageNow, handled, currentMessage, downloadTab>>

\* handleClearChat; its button is disabled while there is no message
HandleClearChat ==
  /\ Len(messages) > 0
  /\ messages' = <<>>
  /\ UNCHANGED <<serverVars, pageNow, handled, currentMessage, isLoading, chatFetches,
                 downloadTab>>

NextChatTab ==
  \/ PageTick
  \/ \E text \in TypedMessages : TypeMessage(text)
  \/ \E by \in {"button", "enter"} : HandleSendMessage(by)
  \/ \E f \in chatFetches, outcome \in FetchOutcomes : SettleChat(f, outcome)
  \/ HandleClearChat

\* the chat tab of the page
SpecChatTab == InitPage /\ [][NextChatTab]_vars

(***************************************************************************)
(* Properties of the fallback chain                                        *)
(***************************************************************************)
\* the request passed POST's validation
Accepted == pc # "idle" /\ validate(chatRoute, body).ctl = "accept"

\* searchWithFallback is over for the request in progress
ChainOver == Accepted /\ pc \in {"aiAwait", "done"}

\* C1: when every producer before the last one throws and the last one
\* resolves to a non-empty list X, searchWithFallback returns exactly X: a
\* producer's error never reaches POST's catch, the chain stays in its loop
\* while only failures have been seen and producers remain, and once the last
\* producer has answered X after failures only, X is the value returned.
C1_LastSucceeds ==
  /\ raised # "search"
  /\ ( /\ Accepted
       /\ Len(finished) < Len(methods)
       /\ \A i \in 1..Len(finished) : finished[i] = "throw" )
     => pc \in {"search", "await"}
  /\ ( /\ Accepted
       /\ Len(methods) >= 1
       /\ Len(finished) = Len(methods)
       /\ \A i \in 1..(Len(methods) - 1) : finished[i] = "throw"
       /\ finished[Len(methods)] = "results" )
     => /\ pc \in {"aiAwait", "done"}
        /\ searchResults = values[Len(methods)]
        /\ (pc = "done" /\ raised = "none" => response.sources = values[Len(methods)])

\* producers [fail, fail, succeed(X)]: X is what the chain returned
C1_Witness ==
  /\ ChainOver
  /\ finished = <<"throw", "throw", "results">>
  /\ searchResults = values[3]
  /\ searchResults # <<>>

\* C2: the chain is strictly sequential and first-success-wins: the producers
\* invoked so far are a prefix of the registered list (registration order,
\* none twice), at most one is in flight and it was started only after all
\* earlier ones ended, every producer before the latest one ended by throwing
\* or by an empty list, so that nothing is invoked after a non-empty result
\* and a request makes at most Len(methods) invocations.
C2_Sequential ==
  /\ Len(started) <= Len(methods)
  /\ \A i \in 1..Len(started) : started[i] = methods[i]
  /\ \A i, j \in 1..Len(started) : i # j => started[i] # started[j]
  /\ Len(finished) = (IF pc = "await" THEN Len(started) - 1 ELSE Len(started))
  /\ \A i \in 1..(Len(started) - 1) :
       i <= Len(finished) /\ finished[i] \in {"throw", "empty"}
  /\ (finished # <<>> /\ finished[Len(finished)] = "results"
        => Len(started) = Len(finished) /\ pc \in {"aiAwait", "done"})

\* a producer answered a non-empty list while later producers were registered
C2_Witness ==
  /\ ChainOver
  /\ Len(methods) = 3
  /\ started = <<"serper", "zai">>
  /\ finished = <<"empty", "results">>

\* C3: when every registered producer threw or resolved to an empty list,
\* searchWithFallback returns the empty list and raises nothing.
C3_AllFail ==
  ( /\ ChainOver
    /\ Len(finished) = Len(methods)
    /\ \A i \in 1..Len(finished) : finished[i] \in {"throw", "empty"} )
  => /\ searchResults = <<>>
     /\ raised # "search"
     /\ (pc = "done" /\ raised = "none" => response.status = 200 /\ response.sources = <<>>)

\* the only registered producer threw and the request was answered
C3_Witness ==
  /\ ChainOver
  /\ pc = "done"
  /\ methods = <<"serper">>
  /\ finished = <<"throw">>
  /\ searchResults = <<>>
  /\ response.status = 200

\* C4: an empty list is not taken: while producers remain the loop goes on
\* to the next one, and the value of the chain is the list of the first
\* producer, in order, that resolved to a non-empty list.
C4_FirstNonEmpty ==
  /\ \A i \in 1..Len(finished) :
       (finished[i] = "empty" /\ i < Len(methods) /\ pc # "search") => Len(started) > i
  /\ ( ChainOver /\ (\E i \in 1..Len(finished) : finished[i] = "results") )
     => LET k == CHOOSE i \in 1..Len(finished) :
                   /\ finished[i] = "results"
                   /\ \A j \in 1..(i - 1) : finished[j] # "results"
        IN /\ searchResults = values[k]
           /\ started[k] = methods[k]
           /\ \A j \in 1..(k - 1) : finished[j] \in {"throw", "empty"}

\* the first producer's list was empty and the chain returned a later list
C4_Witness ==
  /\ ChainOver
  /\ Len(finished) >= 2
  /\ finished[1] = "empty"
  /\ finished[Len(finished)] = "results"
  /\ searchResults = values[Len(finished)]

(***************************************************************************)
(* Properties of POST /chat                                                *)
(***************************************************************************)
\* the AI completion call ended without content
AiFailed == aiCalls = 1 /\ (ai.threw \/ ai.content \in {Undefined, <<>>})

\* C5: a provider failure is absorbed: an accepted request never ends in
\* POST's catch, and when the AI completion call threw or gave no content the
\* answer is the local text built from the message and the search results,
\* with the search results as sources.
C5_ProviderFailureAbsorbed ==
  (Accepted /\ pc = "done")
  => /\ raised = "none"
     /\ response.status = 200
     /\ (AiFailed => /\ response.response = localAIGenerate(chatRoute, message, searchResults)
                     /\ response.sources = searchResults)

\* C6: an error that escapes validation, not-found handling and provider
\* failure handling is answered with status 500 and a generic message, in
\* the chat handler as in the files handler.
C6_UnhandledIs500 ==
  /\ (pc = "done" /\ raised # "none")
     => response.status = 500 /\ response.response = Apology(chatRoute)
  /\ (fileResponse # NoFileResponse /\ fileResponse.status \notin {200, 400, 404})
     => fileResponse.status = 500 /\ fileResponse.error = <<"Failed to download file">>

\* the message of the request is missing, empty, blank or not a string
Blank(b) ==
  \/ b.message.t # "string"
  \/ trim(b.message.s) = <<>>

\* C7: a request whose message is missing, empty, whitespace-only or not a
\* string is answered with status 400 and no search or AI producer is invoked.
C7_BlankIs400 ==
  (pc # "idle" /\ body.kind = "object" /\ Blank(body))
  => /\ pc = "done"
     /\ response.status = 400
     /\ started = <<>>
     /\ aiCalls = 0

\* neither a search key nor an AI provider is configured
NoProviders == ~env.SERPER_API_KEY /\ ~aiConfigured(chatRoute, env) /\ ~env.ZAI_ENABLED

PhotosynthesisAnswered ==
  /\ pc = "done"
  /\ body = [kind |-> "object", message |-> JsString(WhatIsPhotosynthesis)]
  /\ NoProviders

\* C8 as stated: with no provider configured the answer to "What is
\* photosynthesis" has status 200, carries a definition-style heading and an
\* empty or placeholder source list.
C8_DefinitionHeading ==
  PhotosynthesisAnswered
  => /\ response.status = 200
     /\ \/ includes(response.response, DefinitionHeading \o WhatIsPhotosynthesis)
        \/ includes(response.response, WhatItIs \o WhatIsPhotosynthesis)
     /\ response.sources \in {<<>>, localResults(chatRoute, WhatIsPhotosynthesis)}

\* C8 amended: with no provider configured the answer to "What is
\* photosynthesis" has status 200; in chat/route.ts the source list is empty
\* and the text is the not-found message without the "Understanding" heading,
\* which that route writes only over a non-empty result list; in the part_000
\* routes the source list is the placeholder and the text is the local quick
\* answer with its "What it is" line.
C8_NoProviderAnswer ==
  /\ PhotosynthesisAnswered
     => /\ response.status = 200
        /\ raised = "none"
        /\ IF chatRoute = "serper"
           THEN /\ response.sources = <<>>
                /\ startsWith(response.response, NotFoundHeading \o WhatIsPhotosynthesis)
                /\ ~includes(response.response, DefinitionHeading)
           ELSE /\ response.sources = localResults(chatRoute, WhatIsPhotosynthesis)
                /\ startsWith(response.response, QuickAnswerTitle \o WhatIsPhotosynthesis)
                /\ includes(response.response, WhatItIs \o WhatIsPhotosynthesis)
  /\ ( /\ chatRoute = "serper" /\ pc = "done" /\ response.status = 200
       /\ response.response # Undefined
       /\ includes(response.response, DefinitionHeading) )
     => /\ response.sources # <<>>
        /\ determineQueryType(message) = "definition"

\* chat/route.ts answered "What is photosynthesis" with no provider configured
C8_Witness ==
  /\ PhotosynthesisAnswered
  /\ chatRoute = "serper"
  /\ response.status = 200
  /\ response.sources = <<>>

\* the flag that enables the AI provider of the deployed version
aiFlag == IF chatRoute = "hf" THEN env.HUGGINGFACE_API_KEY ELSE env.ZAI_ENABLED

\* C9: producers are registered from configuration only: without a search key
\* the external search producer is never invoked, without the AI flag the
\* external AI producer is never invoked, and the request is then answered
\* locally with no error.
C9_ConfigGatesProducers ==
  /\ ~env.SERPER_API_KEY => \A i \in 1..Len(started) : started[i] # "serper"
  /\ ~aiFlag => aiCalls = 0 /\ \A i \in 1..Len(started) : started[i] # "zai"
  /\ (~env.SERPER_API_KEY /\ ~aiFlag /\ Accepted /\ pc = "done")
     => raised = "none" /\ response.status = 200

(***************************************************************************)
(* Properties of GET /files                                                *)
(***************************************************************************)
\* the number a decimal string denotes
RECURSIVE decimalValue(_)
decimalValue(s) ==
  IF s = <<>> THEN 0
  ELSE 10 * decimalValue(SubSeq(s, 1, Len(s) - 1))
       + (CHOOSE d \in 0..9 : Digits[d + 1] = s[Len(s)])

\* response r serves buffer buf as an attachment of its full length
Served(r, buf) ==
  /\ r.status = 200
  /\ ~r.thrown
  /\ r.body = buf
  /\ startsWith(r.disposition, <<"attachment; filename=\"">>)
  /\ decimalValue(r.contentLength) = byteLength(r.body)

\* the buffers generateYouTubeVideo can make for a name
Generated(f) == {generateYouTubeVideo(f, t, n) : t \in Times, n \in Noises}

\* the names the claim calls eligible for on-demand synthesis
OnDemand(f) ==
  /\ \E i \in 1..Len(f) : i + 7 <= Len(f) /\ SubSeq(f, i, i + 7) = <<"y","o","u","t","u","b","e","_">>
  /\ Len(f) >= 4 /\ SubSeq(f, Len(f) - 3, Len(f)) = <<".","m","p","4">>

Failed(r) == IF filesRoute = "synth" THEN r.status = 500 ELSE r.thrown

C12_NeverOverwritten ==
  [][\A p \in DOMAIN store : store[p].kind = "file" => store'[p] = store[p]]_vars


\* C13: GET /files applies no guard to the filename. A filename whose
\* parent-directory segments lead out of the store directory is joined into
\* the path as it is: a file that lies there is served, and a name that
\* contains 'youtube_' and ends with '.mp4' is synthesized and written there.
C13_NoGuard ==
  [][ LET f == fileRequest'
          p == pathJoin(f)
      IN (f # Undefined /\ f # <<>> /\ outside(p)) =>
           /\ store[p].kind = "file" =>
                Served(fileResponse', store[p].data) /\ store' = store
           /\ (/\ store[p].kind = "none"
               /\ filesRoute = "synth"
               /\ OnDemand(f)
               /\ fileResponse'.status = 200)
                => /\ store'[p].kind = "file"
                   /\ store'[p].data = fileResponse'.body
                   /\ fileResponse'.body \in Generated(f)
    ]_vars

\* a video has been created outside the store directory, and a file that lies
\* outside it has just been served
C13_Witness ==
  /\ outside(pathJoin(OutsideVideo))
  /\ store[pathJoin(OutsideVideo)].kind = "file"
  /\ fileRequest = SecretPath
  /\ outside(pathJoin(SecretPath))
  /\ fileResponse.status = 200
  /\ fileResponse.body = store[pathJoin(SecretPath)].data


\* the names of the entries of the store directory other than the database
listable ==
  {p \in DOMAIN store :
     /\ p \notin {DotName, CustomDb}
     /\ \A i \in 1..Len(p) : p[i] # "/"
     /\ store[p].kind # "none"}

\* C14: the listing GET /real-media returns without a download action has
\* exactly one entry for every store entry whose name is not 'custom.db' and
\* none for 'custom.db', its entries are ordered by modification time from
\* newest to oldest, and totalFiles is the number of entries.
C14_Listing ==
  mediaResponse.kind = "listing" =>
    LET files == mediaResponse.files
    IN /\ \A p \in listable :
            Cardinality({i \in 1..Len(files) : files[i].filename = p}) = 1
       /\ \A i \in 1..Len(files) : files[i].filename \in listable
       /\ \A i \in 1..Len(files) : files[i].filename # CustomDb
       /\ \A i, j \in 1..Len(files) :
            i < j => mtime[files[i].filename] >= mtime[files[j].filename]
       /\ mediaResponse.totalFiles = Len(files)

\* a listing of old and newly generated files, made while the database file
\* is in the store
C14_Witness ==
  /\ mediaResponse.kind = "listing"
  /\ mediaResponse.status = 200
  /\ store[CustomDb].kind = "file"
  /\ Len(mediaResponse.files) >= 3
  /\ mtime[mediaResponse.files[1].filename]
       > mtime[mediaResponse.files[Len(mediaResponse.files)].filename]


\* the extension of a name, in lower case and without its dot
extensionOf(filename) ==
  LET dots == {i \in 1..Len(filename) : filename[i] = "."}
      last == CHOOSE i \in dots : \A j \in dots : j <= i
  IN IF dots = {} THEN <<>>
     ELSE toLowerCase(SubSeq(filename, last + 1, Len(filename)))

\* the extensions the generators write, with their MIME types
written ==
  { [extension |-> <<"j","p","g">>, type |-> <<"image/jpeg">>],
    [extension |-> <<"w","a","v">>, type |-> <<"audio/wav">>],
    [extension |-> <<"m","p","4">>, type |-> <<"video/mp4">>] }

\* C15: the content-type mapping used when serving a stored file returns the
\* documented MIME type for every supported extension, including every
\* extension the generators write (.jpg, .wav, .mp4), whatever the case of the
\* extension, and 'application/octet-stream' for every other extension.
C15_ContentTypes ==
  ret.fn = "contentType" =>
    /\ \A e \in written : extensionOf(call.filename) = e.extension => ret.served = e.type
    /\ (\A e \in mimeTypes : extensionOf(call.filename) # e.extension)
         => ret.served = <<"application/octet-stream">>


\* the unsigned little-endian number in the four bytes of h from offset o
fieldLE(h, o) == h[o + 1] + 256 * h[o + 2] + 65536 * h[o + 3] + 16777216 * h[o + 4]

\* n can be written in 32 bits without loss
fitsUInt32(n) == n >= 0 /\ n \div 65536 < 65536

\* C16: the WAV builder with duration 3 s and sample rate 44100 returns
\* exactly 44 + 44100*3*2 bytes; the little-endian RIFF chunk size at offset 4
\* is 36 + numSamples*2 and the data chunk size at offset 40 is numSamples*2,
\* where numSamples = 44100*3; both values fit in an unsigned 32-bit field.
C16_WavSizes ==
  ret.fn = "generateRealAudioFile" =>
    LET samples == 44100 * 3
    IN /\ byteLength(ret.buffer) = 44 + samples * 2
       /\ Len(ret.wavHeader) = 44
       /\ \A i \in 1..44 : ret.wavHeader[i] \in 0..255
       /\ fieldLE(ret.wavHeader, 4) = 36 + samples * 2
       /\ fieldLE(ret.wavHeader, 40) = samples * 2
       /\ ret.buffer.boxes[1].lengthField = 36 + samples * 2
       /\ ret.buffer.boxes[2].lengthField = ret.buffer.boxes[2].size
       /\ fitsUInt32(36 + samples * 2)
       /\ fitsUInt32(samples * 2)

\* the builder has returned a file of 264,644 bytes
C16_Witness ==
  /\ ret.fn = "generateRealAudioFile"
  /\ byteLength(ret.buffer) = 264644
  /\ fieldLE(ret.wavHeader, 40) = 264600


\* the payload byte at offset k of a filled mdat, whose payload begins after
\* `header` bytes
payloadByte(r, k) == r.mdat.bytes[r.header + k + 1]

\* C17: once the fill loop has finished, for every payload size >= 100 and
\* every offset k that is a multiple of 100 within the mdat payload, the three
\* payload bytes at k, k+1, k+2 are 0x00, 0x00, 0x01.
C17_Markers ==
  ret.fn \in {"mdatBox", "mdatPayload"} =>
    /\ ~ret.mdat.threw
    /\ \A k \in 0..(call.size - 1) :
         (call.size >= 100 /\ k % 100 = 0) =>
           /\ payloadByte(ret, k) = 0
           /\ payloadByte(ret, k + 1) = 0
           /\ payloadByte(ret, k + 2) = 1


\* the offset at which box number n of a buffer begins
RECURSIVE boxStart(_, _)
boxStart(buf, n) ==
  IF n = 1 THEN 0 ELSE boxStart(buf, n - 1) + buf.boxes[n - 1].size

\* a walk over a buffer from the box that begins at `offset`, each step as
\* long as the length field read there: the tags it visits and where it stops
RECURSIVE walk(_, _, _)
walk(buf, offset, tags) ==
  IF \E n \in 1..Len(buf.boxes) : boxStart(buf, n) = offset /\ buf.boxes[n].lengthField > 0
  THEN LET n == CHOOSE m \in 1..Len(buf.boxes) : boxStart(buf, m) = offset
       IN walk(buf, offset + buf.boxes[n].lengthField, Append(tags, buf.boxes[n].type))
  ELSE [tags |-> tags, stop |-> offset]

\* C18: the buffer an MP4-like builder returns is the concatenation of its
\* boxes in the order ftyp, mvhd, tkhd, mdat; each box's big-endian 32-bit
\* length field equals the box's own byte length, so a walk from offset 0 along
\* the length fields visits every tag in order and stops exactly at the end.
C18_BoxWalk ==
  ret.fn \in {"generateYouTubeVideo", "generateRealVideoFile", "downloadYouTubeVideo"} =>
    /\ [n \in 1..Len(ret.buffer.boxes) |-> ret.buffer.boxes[n].type]
         = <<"ftyp", "mvhd", "tkhd", "mdat">>
    /\ \A n \in 1..Len(ret.buffer.boxes) :
         ret.buffer.boxes[n].lengthField = ret.buffer.boxes[n].size
    /\ walk(ret.buffer, 0, <<>>) =
         [tags |-> <<"ftyp", "mvhd", "tkhd", "mdat">>, stop |-> byteLength(ret.buffer)]


\* the query begins with the text
begins(q, text) == Len(q) >= Len(text) /\ \A i \in 1..Len(text) : q[i] = text[i]

\* the text occurs in the query
occurs(q, text) ==
  \E i \in 1..Len(q) : i + Len(text) - 1 <= Len(q) /\ \A j \in 1..Len(text) : q[i + j - 1] = text[j]

\* the words determineQueryType looks for anywhere in a query
Keywords ==
  { <<"h","o","w"," ","d","o">>, <<"r","e","a","s","o","n">>, <<"c","o","m","p","a","r","e">>,
    <<"v","s">>, <<"v","e","r","s","u","s">>, <<"r","e","v","i","e","w">>,
    <<"r","a","t","i","n","g">>, <<"o","p","i","n","i","o","n">>, <<"h","i","s","t","o","r","y">>,
    <<"o","r","i","g","i","n">>, <<"n","e","w","s">>, <<"r","e","c","e","n","t">>,
    <<"l","a","t","e","s","t">>, <<"b","e","n","e","f","i","t">>,
    <<"a","d","v","a","n","t","a","g","e">>, <<"p","r","o">>,
    <<"d","i","s","a","d","v","a","n","t","a","g","e">>, <<"c","o","n">>, <<"r","i","s","k">> }

\* the words it looks for at the beginning of a query
Openings ==
  { <<"w","h","a","t"," ","i","s">>, <<"d","e","f","i","n","e">>, <<"h","o","w"," ","t","o">>,
    <<"w","h","y">> }

\* the query has none of the recognised phrasings
unrecognised(q) ==
  /\ \A w \in Openings : ~begins(toLowerCase(q), w)
  /\ \A w \in Keywords : ~occurs(toLowerCase(q), w)

\* the query has a phrasing that determineQueryType tests before comparisons
testedEarlier(q) ==
  \/ \E w \in Openings : begins(toLowerCase(q), w)
  \/ occurs(toLowerCase(q), <<"h","o","w"," ","d","o">>)
  \/ occurs(toLowerCase(q), <<"r","e","a","s","o","n">>)

\* C19 as stated: determineQueryType returns 'definition' for every query
\* "What is X", 'howto' for every "How to do X", 'comparison' for every
\* "X vs Y", and 'general' for a query with none of the recognised phrasings,
\* for all X and Y.
C19_QueryTypes ==
  ret.fn = "determineQueryType" =>
    /\ begins(call.query, WhatIs) => ret.type = "definition"
    /\ begins(call.query, HowToDo) => ret.type = "howto"
    /\ occurs(call.query, Vs) => ret.type = "comparison"
    /\ unrecognised(call.query) => ret.type = "general"

\* C19 amended: 'definition' for every "What is X" and 'howto' for every
\* "How to do X"; 'comparison' for "X vs Y" when the query does not begin
\* with "what is", "define", "how to" or "why" and contains neither "how do"
\* nor "reason", in any case of letters, and the type of that earlier
\* phrasing otherwise; 'general' for a query with none of the recognised
\* phrasings.
C19_QueryTypesAmended ==
  ret.fn = "determineQueryType" =>
    /\ begins(call.query, WhatIs) => ret.type = "definition"
    /\ begins(call.query, HowToDo) => ret.type = "howto"
    /\ (occurs(call.query, Vs) /\ ~testedEarlier(call.query)) => ret.type = "comparison"
    /\ (occurs(call.query, Vs) /\ testedEarlier(call.query))
         => ret.type \in {"definition", "howto", "explanation"}
    /\ unrecognised(call.query) => ret.type = "general"

\* a query "X vs Y" whose X begins with "why" has been classified
C19_Witness ==
  /\ ret.fn = "determineQueryType"
  /\ occurs(call.query, Vs)
  /\ begins(toLowerCase(call.query), <<"w","h","y">>)
  /\ ret.type = "explanation"


\* the domains on a platform's allow-list
allowList(platform) ==
  CASE platform = <<"youtube">> ->
         {<<"y","o","u","t","u","b","e",".","c","o","m">>, <<"y","o","u","t","u",".","b","e">>}
    [] platform = <<"tiktok">> ->
         {<<"t","i","k","t","o","k",".","c","o","m">>, <<"d","o","u","y","i","n",".","c","o","m">>}
    [] platform = <<"instagram">> ->
         {<<"i","n","s","t","a","g","r","a","m",".","c","o","m">>, <<"i","n","s","t","a","g","r",".","a","m">>}
    [] OTHER -> {}

\* the hostname is a domain of the platform's allow-list or a subdomain of one
belongsTo(hostname, platform) ==
  \E d \in allowList(platform) :
    \/ hostname = d
    \/ /\ Len(hostname) > Len(d)
       /\ SubSeq(hostname, Len(hostname) - Len(d), Len(hostname)) = <<".">> \o d

\* C20: POST /download answers 400 and fabricates no download options whenever
\* url or platform is missing, the platform is not one of youtube, tiktok,
\* instagram, the url does not parse, or the url's hostname is not on that
\* platform's allow-list; only a URL whose hostname belongs to the requested
\* platform is accepted.
C20_AllowList ==
  (ret.fn = "POST /download" /\ call.body.kind = "object") =>
    LET url      == call.body.url
        platform == call.body.platform
        named    == platform.t = "string"
                    /\ platform.s \in {<<"youtube">>, <<"tiktok">>, <<"instagram">>}
        allowed == /\ url.truthy /\ url.t = "string"
                    /\ named
                    /\ parseUrl(url.s).ok
                    /\ belongsTo(parseUrl(url.s).hostname, platform.s)
    IN /\ ~allowed => ret.response.status = 400 /\ ret.response.downloads = <<>>
       /\ ret.response.status = 200 => allowed

(***************************************************************************)
(* Properties of the messaging server                                      *)
(***************************************************************************)
\* the positions of the log at which initSocket was called
initCalls == {k \in 1..Len(socketLog) : socketLog[k].fn = "initSocket"}

\* C21: the messaging server is created at most once per process: whatever
\* calls of initSocket and getIO were made, at most one server was
\* constructed, and once initSocket has been called exactly one was, with
\* one connection handler; every initSocket call returned that server, getIO
\* returned it after the first initSocket, and getIO threw exactly when
\* initSocket had not been called before it.
C21_CreatedOnce ==
  /\ Len(servers) <= 1
  /\ initCalls # {} => Len(servers) = 1 /\ servers[1].connection = 1
  /\ \A k \in 1..Len(socketLog) :
       LET c == socketLog[k]
           initialised == \E j \in initCalls : j < k
       IN IF c.fn = "initSocket"
          THEN ~c.threw /\ c.returned = 1
          ELSE /\ c.threw <=> ~initialised
               /\ ~c.threw => c.returned = 1

\* getIO threw, then initSocket was called with two different HTTP servers,
\* then getIO returned
C21_Witness ==
  /\ Len(socketLog) = 4
  /\ socketLog[1].fn = "getIO" /\ socketLog[1].threw
  /\ socketLog[2].fn = "initSocket" /\ socketLog[3].fn = "initSocket"
  /\ socketLog[2].server # socketLog[3].server
  /\ socketLog[4].fn = "getIO" /\ ~socketLog[4].threw

\* the tests of a query's intent, in the order they are made
QueryTests ==
  << [type |-> "definition", openings |-> {<<"w","h","a","t"," ","i","s">>, <<"d","e","f","i","n","e">>}, keywords |-> {}],
    [type |-> "howto", openings |-> {<<"h","o","w"," ","t","o">>}, keywords |-> {<<"h","o","w"," ","d","o">>}],
    [type |-> "explanation", openings |-> {<<"w","h","y">>}, keywords |-> {<<"r","e","a","s","o","n">>}],
    [type |-> "comparison", openings |-> {}, keywords |-> {<<"c","o","m","p","a","r","e">>, <<"v","s">>, <<"v","e","r","s","u","s">>}],
    [type |-> "review", openings |-> {}, keywords |-> {<<"r","e","v","i","e","w">>, <<"r","a","t","i","n","g">>, <<"o","p","i","n","i","o","n">>}],
    [type |-> "historical", openings |-> {}, keywords |-> {<<"h","i","s","t","o","r","y">>, <<"o","r","i","g","i","n">>}],
    [type |-> "news", openings |-> {}, keywords |-> {<<"n","e","w","s">>, <<"r","e","c","e","n","t">>, <<"l","a","t","e","s","t">>}],
    [type |-> "benefits", openings |-> {}, keywords |-> {<<"b","e","n","e","f","i","t">>, <<"a","d","v","a","n","t","a","g","e">>, <<"p","r","o">>}],
    [type |-> "drawbacks", openings |-> {}, keywords |-> {<<"d","i","s","a","d","v","a","n","t","a","g","e">>, <<"c","o","n">>, <<"r","i","s","k">>}] >>

\* the tests the (lowercased) query q meets
met(q) ==
  {k \in 1..Len(QueryTests) :
     \/ \E w \in QueryTests[k].openings : begins(q, w)
     \/ \E w \in QueryTests[k].keywords : occurs(q, w)}

\* C22: determineQueryType is total and ordered: it returns one of the ten
\* intents, the intent of the first test the lowercased query meets in the
\* order definition, howto, explanation, comparison, review, historical,
\* news, benefits, drawbacks, and 'general' exactly when it meets none.
C22_TotalOrdered ==
  ret.fn = "determineQueryType" =>
    LET hits == met(toLowerCase(call.query))
    IN /\ ret.type \in {QueryTests[k].type : k \in 1..Len(QueryTests)} \cup {"general"}
       /\ ret.type = "general" <=> hits = {}
       /\ hits # {} => ret.type = QueryTests[CHOOSE k \in hits : \A j \in hits : k <= j].type

\* a query typed with capitals that meets the tests for benefits and for
\* drawbacks has been classified
C22_Witness ==
  /\ ret.fn = "determineQueryType"
  /\ call.query # toLowerCase(call.query)
  /\ met(toLowerCase(call.query)) = {8, 9}
  /\ ret.type = "benefits"

(***************************************************************************)
(* Properties of the synthesized answer                                    *)
(***************************************************************************)
\* the smaller of two numbers
least(a, b) == IF a < b THEN a ELSE b

\* where the text first has the piece, 0 if nowhere
firstAt(text, piece) ==
  IF \E i \in 1..Len(text) : text[i] = piece
  THEN CHOOSE i \in 1..Len(text) : text[i] = piece /\ \A j \in 1..(i - 1) : text[j] # piece
  ELSE 0

\* the lines of the list that follows the heading in the text, up to the
\* first piece that is neither a bullet, a line break nor a character of
\* `letters`; no line if the heading is not there
listUnder(text, heading, letters) ==
  LET h == firstAt(text, heading)
      inList(i) == text[i] \in letters \cup {"* ", "\n"}
      last == IF \E i \in (h + 1)..Len(text) : ~inList(i)
              THEN (CHOOSE i \in (h + 1)..Len(text) :
                      ~inList(i) /\ \A j \in (h + 1)..(i - 1) : inList(j)) - 1
              ELSE Len(text)
  IN IF h = 0 THEN <<>> ELSE splitOn(SubSeq(text, h + 1, last), "\n")

\* the characters of the fields of the results
lettersOf(results) ==
  UNION {{r.title[i] : i \in 1..Len(r.title)} \cup {r.url[i] : i \in 1..Len(r.url)}
         \cup {r.snippet[i] : i \in 1..Len(r.snippet)} :
         r \in {results[k] : k \in 1..Len(results)}}

\* the snippet has a phrase that is cleaned away
hasFiller(snippet) ==
  \/ occurs(toLowerCase(snippet), <<"c","l","i","c","k"," ","h","e","r","e"," ","f","o","r"," ","m","o","r","e"," ","i","n","f","o","r","m","a","t","i","o","n">>)
  \/ occurs(toLowerCase(snippet), <<"r","e","a","d"," ","m","o","r","e">>)
  \/ occurs(toLowerCase(snippet), <<"l","e","a","r","n"," ","m","o","r","e">>)

ListNumbers == <<"1", "2", "3", "4", "5", "6", "7", "8", "9">>

\* C23: for a list of n > 0 results synthesizeFromSearch emits a source list
\* of min(5, n) entries numbered from 1 in input order and a Main Points list
\* of min(3, n) bullets taken from the first results in order, whatever the
\* type of the query; for an empty list it emits neither and returns the
\* not-found text.
C23_Lists ==
  ret.fn = "synthesizeFromSearch" =>
    LET results == call.searchResults
        n       == Len(results)
        letters == lettersOf(results)
        points  == listUnder(ret.text, "**Main Points:**\n", letters)
        sources == listUnder(ret.text, SourcesHeader[1],
                             letters \cup {"[", "] [", "](", ")"} \cup {ListNumbers[i] : i \in 1..9})
    IN IF n = 0
       THEN /\ points = <<>> /\ sources = <<>>
            /\ Head(ret.text) = NotFoundHeading[1]
       ELSE /\ Len(sources) = least(SourcesShown, n)
            /\ \A i \in 1..Len(sources) :
                 sources[i] = <<"[", ListNumbers[i], "] [">> \o results[i].title
                              \o <<"](">> \o results[i].url \o <<")">>
            /\ Len(points) = least(MainPointsShown, n)
            /\ \A i \in 1..Len(points) :
                 /\ Head(points[i]) = "* "
                 /\ ~hasFiller(results[i].snippet) => Tail(points[i]) = results[i].snippet
                 /\ begins(results[i].snippet,
                           SubSeq(Tail(points[i]), 1, least(2, Len(points[i]) - 1)))

\* an answer has been synthesized from more results than are listed, for a
\* query with a section of its own after the main points
C23_Witness ==
  /\ ret.fn = "synthesizeFromSearch"
  /\ Len(call.searchResults) > SourcesShown
  /\ determineQueryType(call.query) = "comparison"
  /\ call.searchResults[1].position # 1

\* the not-found text has been returned for an empty list
C23_WitnessEmpty ==
  /\ ret.fn = "synthesizeFromSearch"
  /\ call.searchResults = <<>>

(***************************************************************************)
(* Properties of the YouTube downloader                                    *)
(***************************************************************************)
\* the body carries a url from which a video id is extracted
hasVideoId(b) ==
  b.kind = "object" /\ b.url.t = "string" /\ extractVideoId(b.url.s) # Undefined

\* the body asks for a download and names a quality
asksDownload(b) == b.action = JsString(<<"download">>) /\ b.quality.truthy

\* C24: the downloader's POST writes to the store only when a video id is
\* extracted from the url, action is 'download' and quality is present; a
\* missing url or a url with no extractable id is answered 400, any other
\* action, or 'download' without quality, is answered 400, and in all those
\* cases and for action 'info' the store is left unchanged.
C24_WritesOnlyDownloads ==
  [][LET b == ytRequest'
         r == ytResponse'
     IN b.kind = "object" =>
          /\ store' # store => hasVideoId(b) /\ asksDownload(b)
          /\ ~hasVideoId(b) => r.status = 400 /\ store' = store
          /\ (hasVideoId(b) /\ b.action # JsString(<<"info">>) /\ ~asksDownload(b))
               => r.status = 400 /\ store' = store
          /\ b.action = JsString(<<"info">>) => store' = store]_vars

\* the same for bodies that are JSON objects whose url, if any, is a string
WritesOnlyDownloadsForStrings ==
  [][LET b == ytRequest'
         r == ytResponse'
     IN (b.kind = "object" /\ b.url.t \in {"undefined", "string"}) =>
          /\ store' # store => hasVideoId(b) /\ asksDownload(b)
          /\ ~hasVideoId(b) => r.status = 400 /\ store' = store
          /\ (hasVideoId(b) /\ b.action # JsString(<<"info">>) /\ ~asksDownload(b))
               => r.status = 400 /\ store' = store
          /\ b.action = JsString(<<"info">>) => store' = store]_vars

(***************************************************************************)
(* Properties of sample generation and of the read paths                   *)
(***************************************************************************)
\* the names whose entry in the store is not what it was before the step
changed == {p \in DOMAIN store : store'[p] # store[p]}

C26_FailureLeavesNothing ==
  [][(mediaRequest'.action = <<"download">> /\ mediaResponse'.status = 500
      /\ ~mediaResponse'.success)
       => store' = store]_vars

\* C27: read paths never modify the store: a GET /files for a filename that
\* exists, a GET /files answered 400 or 404, and the GET /real-media listing
\* leave the stored filenames and their bytes as they were.
C27_ReadsLeaveStore ==
  [][/\ (fileResponse' # NoFileResponse /\ fileRequest' \in DOMAIN store
         /\ store[fileRequest'].kind # "none") => store' = store
     /\ fileResponse'.status \in {400, 404} => store' = store
     /\ mediaResponse'.kind = "listing" => store' = store]_vars

\* a file that a request synthesized and saved has been served again, from
\* the store
C27_Witness ==
  /\ fileRequest = FutureName
  /\ fileResponse.status = 200
  /\ fileEffects = {}
  /\ synthesized[FutureName] # NoEntry

(***************************************************************************)
(* Properties of the page                                                  *)
(***************************************************************************)
\* the handler runs whose item is in the list
listed(list) == {list[i].request : i \in 1..Len(list)}

\* the status of the item that run n of handleDownload made
statusOf(list, n) == list[CHOOSE i \in 1..Len(list) : list[i].request = n].status

\* what a step may do to the download list: add the item of the run that
\* starts, in status 'processing', and move an item from 'processing' to
\* 'completed' or 'error' when the request of its own run settles
ownSettlement ==
  /\ \A n \in listed(downloads') \ listed(downloads) :
       /\ n = handled + 1 /\ handled' = n
       /\ statusOf(downloads', n) = "processing"
  /\ \A n \in listed(downloads') \cap listed(downloads) :
       statusOf(downloads', n) # statusOf(downloads, n) =>
         /\ statusOf(downloads, n) = "processing"
         /\ statusOf(downloads', n) \in {"completed", "error"}
         /\ \E f \in downloadFetches \ downloadFetches' : f.request = n

\* C28: in the download list an item is created in status 'processing' and
\* changes status at most once, to 'completed' or 'error', only through the
\* settlement of its own request; a settled item never changes again, the
\* settlement of one item's request never changes another item, and an item
\* removed by Clear while its request is pending is not re-added when that
\* request settles.
C28_SettlesOwnItem == [][ownSettlement]_vars

\* the chat requests in flight
inFlight == {f.request : f \in chatFetches}

\* the positions of the transcript that hold an assistant message
answers == {k \in 1..Len(messages) : messages[k].role = "assistant"}

\* isLoading tells whether a chat request is in flight
loadingTellsInFlight == isLoading <=> chatFetches # {}

\* every assistant message comes after the user message it answers
answersFollowQuestions ==
  \A k \in answers :
    \E j \in 1..(k - 1) :
      messages[j].role = "user" /\ messages[j].request = messages[k].request

\* no send has an answer before its request settles, nor two answers
oneAnswerEach ==
  \A k \in answers :
    /\ messages[k].request \notin inFlight
    /\ \A j \in answers : messages[j].request = messages[k].request => j = k

\* a request that settles appends one assistant message, for its own send
settlementAppends ==
  \A f \in chatFetches \ chatFetches' :
    /\ Len(messages') = Len(messages) + 1
    /\ SubSeq(messages', 1, Len(messages)) = messages
    /\ messages'[Len(messages')].role = "assistant"
    /\ messages'[Len(messages')].request = f.request

\* C29: in the chat, under any interleaving of sends (button or Enter key),
\* Clear and settlements, isLoading is true whenever a chat request is in
\* flight and false when none is, every assistant message in the transcript
\* is preceded by the user message it answers, and exactly one assistant
\* message is appended per send once its request settles.
C29_LoadingAndPairs ==
  /\ [](loadingTellsInFlight /\ answersFollowQuestions /\ oneAnswerEach)
  /\ [][settlementAppends]_vars

====
